---------------------------- MODULE Spec2Model ----------------------------
(***************************************************************************)
(* SmartWave demos: the register table FPGA_Reg (fpga_reg.py) and the     *)
(* MCP9808 sensor emulation bring-up script (mcp9808_sens_emulation.py).   *)
(*                                                                         *)
(* Python integers are unbounded, and the script shifts and ORs them       *)
(* before handing them to the transport.  A non-negative Python int is     *)
(* modelled as the finite set of the positions of its 1 bits, so that      *)
(* 0x10030 is {4, 5, 16} and 2^32 is {32}: <<, >> and | are then exact     *)
(* for every width.                                                        *)
(***************************************************************************)
EXTENDS Integers, Sequences, FiniteSets, TLC

(***************************************************************************)
(* Bounds of the model.                                                    *)
(***************************************************************************)
\* number of lines the user types at the prompt in one run
MaxInputs == 2
\* longest (name, address) list evaluated as a dict literal
MaxEntries == 2
\* highest pin lane looked up in the pin-mux table (the table has 0..15)
MaxLane == 17

(***************************************************************************)
(* Python int arithmetic on bit sets.                                      *)
(***************************************************************************)



\* the int written as the literal n (0 <= n < 2^31)
Bits(n) == {i \in 0..30 : (n \div (2^i)) % 2 = 1}

\* a << k
pyShl(a, k) == {b + k : b \in a}

\* a >> k
pyShr(a, k) == {b - k : b \in {c \in a : c >= k}}

\* a | b
pyOr(a, b) == a \cup b

\* a + b (ripple carry), used by int() below
RECURSIVE pyAdd(_, _)
pyAdd(a, b) ==
  IF b = {} THEN a
  ELSE pyAdd((a \cup b) \ (a \cap b), pyShl(a \cap b, 1))

\* a * 10
pyMul10(a) == pyAdd(pyShl(a, 3), pyShl(a, 1))

\* FPGA_Reg.output_pins: signal name -> pin identifier
output_pins ==
  ("wfg_drive_spi_top_0_sclk" :> 32 @@ "wfg_drive_spi_top_0_cs" :> 31 @@ "wfg_drive_spi_top_0_dout" :> 30 @@ "wfg_drive_spi_top_1_sclk" :> 29 @@ "wfg_drive_spi_top_1_cs" :> 28 @@ "wfg_drive_spi_top_1_dout" :> 27 @@ "wfg_drive_pat_top_0_output_0" :> 26 @@ "wfg_drive_pat_top_0_output_1" :> 25 @@ "wfg_drive_pat_top_0_output_2" :> 24 @@ "wfg_drive_pat_top_0_output_3" :> 23 @@ "wfg_drive_pat_top_0_output_4" :> 22 @@ "wfg_drive_pat_top_0_output_5" :> 21 @@ "wfg_drive_pat_top_0_output_6" :> 20 @@ "wfg_drive_pat_top_0_output_7" :> 19 @@ "wfg_drive_pat_top_0_output_8" :> 18 @@ "wfg_drive_pat_top_0_output_9" :> 17 @@ "wfg_drive_pat_top_0_output_10" :> 16 @@ "wfg_drive_pat_top_0_output_11" :> 15 @@ "wfg_drive_pat_top_0_output_12" :> 14 @@ "wfg_drive_pat_top_0_output_13" :> 13 @@ "wfg_drive_pat_top_0_output_14" :> 12 @@ "wfg_drive_pat_top_0_output_15" :> 11 @@ "wfg_drive_i2c_top_0_scl" :> 10 @@ "wfg_drive_i2c_top_0_sda" :> 9 @@ "wfg_drive_i2c_top_1_scl" :> 8 @@ "wfg_drive_i2c_top_1_sda" :> 7 @@ "wfg_drive_i2ct_top_0_scl" :> 6 @@ "wfg_drive_i2ct_top_0_sda" :> 5 @@ "wfg_drive_uart_top_0_tx" :> 4 @@ "wfg_drive_uart_top_1_tx" :> 3)

\* FPGA_Reg.input_pins: signal name -> pin identifier
input_pins ==
  ("wfg_drive_spi_top_0_din" :> 9 @@ "wfg_drive_spi_top_1_din" :> 8 @@ "wfg_drive_i2c_top_0_scl" :> 7 @@ "wfg_drive_i2c_top_0_sda" :> 6 @@ "wfg_drive_i2c_top_1_scl" :> 5 @@ "wfg_drive_i2c_top_1_sda" :> 4 @@ "wfg_drive_i2ct_top_0_scl" :> 3 @@ "wfg_drive_i2ct_top_0_sda" :> 2 @@ "wfg_drive_uart_top_0_rx" :> 1 @@ "wfg_drive_uart_top_1_rx" :> 0)

\* FPGA_Reg.registers["wfg_interconnect_top"]
wfg_interconnect_top ==
  ("wfg_drive_spi_top_0_select_0" :> ("addr" :> 278528 @@ "disconnect" :> 0 @@ "wfg_stim_mem_top_0" :> 1 @@ "wfg_stim_mem_top_1" :> 2 @@ "wfg_stim_mem_top_2" :> 3 @@ "wfg_stim_mem_top_3" :> 4 @@ "MSB" :> 7 @@ "LSB" :> 0)
  @@ "wfg_drive_spi_top_1_select_0" :> ("addr" :> 278529 @@ "disconnect" :> 0 @@ "wfg_stim_mem_top_0" :> 1 @@ "wfg_stim_mem_top_1" :> 2 @@ "wfg_stim_mem_top_2" :> 3 @@ "wfg_stim_mem_top_3" :> 4 @@ "MSB" :> 7 @@ "LSB" :> 0)
  @@ "wfg_drive_pat_top_0_select_0" :> ("addr" :> 278544 @@ "disconnect" :> 0 @@ "wfg_stim_mem_top_0" :> 1 @@ "wfg_stim_mem_top_1" :> 2 @@ "wfg_stim_mem_top_2" :> 3 @@ "wfg_stim_mem_top_3" :> 4 @@ "MSB" :> 7 @@ "LSB" :> 0)
  @@ "wfg_drive_i2c_top_0_select_0" :> ("addr" :> 278560 @@ "disconnect" :> 0 @@ "wfg_stim_mem_top_0" :> 1 @@ "wfg_stim_mem_top_1" :> 2 @@ "wfg_stim_mem_top_2" :> 3 @@ "wfg_stim_mem_top_3" :> 4 @@ "MSB" :> 7 @@ "LSB" :> 0)
  @@ "wfg_drive_i2c_top_1_select_0" :> ("addr" :> 278561 @@ "disconnect" :> 0 @@ "wfg_stim_mem_top_0" :> 1 @@ "wfg_stim_mem_top_1" :> 2 @@ "wfg_stim_mem_top_2" :> 3 @@ "wfg_stim_mem_top_3" :> 4 @@ "MSB" :> 7 @@ "LSB" :> 0)
  @@ "wfg_drive_uart_top_0_select_0" :> ("addr" :> 278576 @@ "disconnect" :> 0 @@ "wfg_stim_mem_top_0" :> 1 @@ "wfg_stim_mem_top_1" :> 2 @@ "wfg_stim_mem_top_2" :> 3 @@ "wfg_stim_mem_top_3" :> 4 @@ "MSB" :> 7 @@ "LSB" :> 0)
  @@ "wfg_drive_uart_top_1_select_0" :> ("addr" :> 278577 @@ "disconnect" :> 0 @@ "wfg_stim_mem_top_0" :> 1 @@ "wfg_stim_mem_top_1" :> 2 @@ "wfg_stim_mem_top_2" :> 3 @@ "wfg_stim_mem_top_3" :> 4 @@ "MSB" :> 7 @@ "LSB" :> 0)
  @@ "wfg_record_mem_top_0_select_0" :> ("addr" :> 278768 @@ "disconnect" :> 0 @@ "wfg_drive_spi_top_0" :> 1 @@ "wfg_drive_spi_top_1" :> 2 @@ "wfg_drive_pat_top_0" :> 17 @@ "wfg_drive_i2c_top_0" :> 33 @@ "wfg_drive_i2c_top_1" :> 34 @@ "wfg_drive_i2ct_top_0" :> 33 @@ "wfg_drive_uart_top_0" :> 49 @@ "wfg_drive_uart_top_1" :> 50 @@ "MSB" :> 7 @@ "LSB" :> 0)
  @@ "wfg_record_mem_top_1_select_0" :> ("addr" :> 278769 @@ "disconnect" :> 0 @@ "wfg_drive_spi_top_0" :> 1 @@ "wfg_drive_spi_top_1" :> 2 @@ "wfg_drive_pat_top_0" :> 17 @@ "wfg_drive_i2c_top_0" :> 33 @@ "wfg_drive_i2c_top_1" :> 34 @@ "wfg_drive_i2ct_top_0" :> 33 @@ "wfg_drive_uart_top_0" :> 49 @@ "wfg_drive_uart_top_1" :> 50 @@ "MSB" :> 7 @@ "LSB" :> 0)
  @@ "wfg_record_mem_top_2_select_0" :> ("addr" :> 278770 @@ "disconnect" :> 0 @@ "wfg_drive_spi_top_0" :> 1 @@ "wfg_drive_spi_top_1" :> 2 @@ "wfg_drive_pat_top_0" :> 17 @@ "wfg_drive_i2c_top_0" :> 33 @@ "wfg_drive_i2c_top_1" :> 34 @@ "wfg_drive_i2ct_top_0" :> 33 @@ "wfg_drive_uart_top_0" :> 49 @@ "wfg_drive_uart_top_1" :> 50 @@ "MSB" :> 7 @@ "LSB" :> 0)
  @@ "wfg_record_mem_top_3_select_0" :> ("addr" :> 278771 @@ "disconnect" :> 0 @@ "wfg_drive_spi_top_0" :> 1 @@ "wfg_drive_spi_top_1" :> 2 @@ "wfg_drive_pat_top_0" :> 17 @@ "wfg_drive_i2c_top_0" :> 33 @@ "wfg_drive_i2c_top_1" :> 34 @@ "wfg_drive_i2ct_top_0" :> 33 @@ "wfg_drive_uart_top_0" :> 49 @@ "wfg_drive_uart_top_1" :> 50 @@ "MSB" :> 7 @@ "LSB" :> 0))

\* FPGA_Reg.registers["wfg_core_top"]
wfg_core_top ==
  ("CTRL" :> ("addr" :> 262144
    @@ "EN" :> ("MSB" :> 0 @@ "LSB" :> 0))
  @@ "CFG" :> ("addr" :> 262148
    @@ "SYNC" :> ("MSB" :> 15 @@ "LSB" :> 0)
    @@ "SUBCYCLE" :> ("MSB" :> 31 @@ "LSB" :> 16))
  @@ "MODULE_INFO" :> ("addr" :> 262396
    @@ "PATCH" :> ("MSB" :> 7 @@ "LSB" :> 0)
    @@ "MINOR" :> ("MSB" :> 15 @@ "LSB" :> 8)
    @@ "MAJOR" :> ("MSB" :> 23 @@ "LSB" :> 16)
    @@ "TYPE" :> ("MSB" :> 27 @@ "LSB" :> 27)
    @@ "BLOCK" :> ("MSB" :> 31 @@ "LSB" :> 28)))

\* FPGA_Reg.registers["wfg_pin_mux_top"]
wfg_pin_mux_top ==
  ("OUTPUT_SEL_0" :> ("addr" :> 286720
    @@ "0" :> ("MSB" :> 7 @@ "LSB" :> 0)
    @@ "1" :> ("MSB" :> 15 @@ "LSB" :> 8)
    @@ "2" :> ("MSB" :> 23 @@ "LSB" :> 16)
    @@ "3" :> ("MSB" :> 31 @@ "LSB" :> 24))
  @@ "OUTPUT_SEL_1" :> ("addr" :> 286724
    @@ "4" :> ("MSB" :> 7 @@ "LSB" :> 0)
    @@ "5" :> ("MSB" :> 15 @@ "LSB" :> 8)
    @@ "6" :> ("MSB" :> 23 @@ "LSB" :> 16)
    @@ "7" :> ("MSB" :> 31 @@ "LSB" :> 24))
  @@ "OUTPUT_SEL_2" :> ("addr" :> 286728
    @@ "8" :> ("MSB" :> 7 @@ "LSB" :> 0)
    @@ "9" :> ("MSB" :> 15 @@ "LSB" :> 8)
    @@ "10" :> ("MSB" :> 23 @@ "LSB" :> 16)
    @@ "11" :> ("MSB" :> 31 @@ "LSB" :> 24))
  @@ "OUTPUT_SEL_3" :> ("addr" :> 286732
    @@ "12" :> ("MSB" :> 7 @@ "LSB" :> 0)
    @@ "13" :> ("MSB" :> 15 @@ "LSB" :> 8)
    @@ "14" :> ("MSB" :> 23 @@ "LSB" :> 16)
    @@ "15" :> ("MSB" :> 31 @@ "LSB" :> 24))
  @@ "PULLUP_SEL_0" :> ("addr" :> 286736
    @@ "0" :> ("MSB" :> 7 @@ "LSB" :> 0)
    @@ "1" :> ("MSB" :> 15 @@ "LSB" :> 8)
    @@ "2" :> ("MSB" :> 23 @@ "LSB" :> 16)
    @@ "3" :> ("MSB" :> 31 @@ "LSB" :> 24))
  @@ "PULLUP_SEL_1" :> ("addr" :> 286740
    @@ "4" :> ("MSB" :> 7 @@ "LSB" :> 0)
    @@ "5" :> ("MSB" :> 15 @@ "LSB" :> 8)
    @@ "6" :> ("MSB" :> 23 @@ "LSB" :> 16)
    @@ "7" :> ("MSB" :> 31 @@ "LSB" :> 24))
  @@ "PULLUP_SEL_2" :> ("addr" :> 286744
    @@ "8" :> ("MSB" :> 7 @@ "LSB" :> 0)
    @@ "9" :> ("MSB" :> 15 @@ "LSB" :> 8)
    @@ "10" :> ("MSB" :> 23 @@ "LSB" :> 16)
    @@ "11" :> ("MSB" :> 31 @@ "LSB" :> 24))
  @@ "PULLUP_SEL_3" :> ("addr" :> 286748
    @@ "12" :> ("MSB" :> 7 @@ "LSB" :> 0)
    @@ "13" :> ("MSB" :> 15 @@ "LSB" :> 8)
    @@ "14" :> ("MSB" :> 23 @@ "LSB" :> 16)
    @@ "15" :> ("MSB" :> 31 @@ "LSB" :> 24))
  @@ "INPUT_SEL_0" :> ("addr" :> 286752
    @@ "0" :> ("MSB" :> 7 @@ "LSB" :> 0)
    @@ "1" :> ("MSB" :> 15 @@ "LSB" :> 8)
    @@ "2" :> ("MSB" :> 23 @@ "LSB" :> 16)
    @@ "3" :> ("MSB" :> 31 @@ "LSB" :> 24))
  @@ "INPUT_SEL_1" :> ("addr" :> 286756
    @@ "4" :> ("MSB" :> 7 @@ "LSB" :> 0)
    @@ "5" :> ("MSB" :> 15 @@ "LSB" :> 8)
    @@ "6" :> ("MSB" :> 23 @@ "LSB" :> 16)
    @@ "7" :> ("MSB" :> 31 @@ "LSB" :> 24))
  @@ "INPUT_SEL_2" :> ("addr" :> 286760
    @@ "8" :> ("MSB" :> 7 @@ "LSB" :> 0)
    @@ "9" :> ("MSB" :> 15 @@ "LSB" :> 8)
    @@ "10" :> ("MSB" :> 23 @@ "LSB" :> 16)
    @@ "11" :> ("MSB" :> 31 @@ "LSB" :> 24))
  @@ "INPUT_SEL_3" :> ("addr" :> 286764
    @@ "12" :> ("MSB" :> 7 @@ "LSB" :> 0)
    @@ "13" :> ("MSB" :> 15 @@ "LSB" :> 8)
    @@ "14" :> ("MSB" :> 23 @@ "LSB" :> 16)
    @@ "15" :> ("MSB" :> 31 @@ "LSB" :> 24))
  @@ "MIRROR_OUTPUT" :> ("addr" :> 286768
    @@ "VAL" :> ("MSB" :> 15 @@ "LSB" :> 0))
  @@ "MIRROR_PULLUP" :> ("addr" :> 286772
    @@ "VAL" :> ("MSB" :> 15 @@ "LSB" :> 0))
  @@ "MIRROR_INPUT" :> ("addr" :> 286776
    @@ "VAL" :> ("MSB" :> 15 @@ "LSB" :> 0))
  @@ "PIN_IR_RISING" :> ("addr" :> 286864
    @@ "VAL" :> ("MSB" :> 15 @@ "LSB" :> 0))
  @@ "PIN_IR_FALLING" :> ("addr" :> 286868
    @@ "VAL" :> ("MSB" :> 15 @@ "LSB" :> 0))
  @@ "ISR" :> ("addr" :> 286880
    @@ "PIN" :> ("MSB" :> 15 @@ "LSB" :> 0))
  @@ "IER" :> ("addr" :> 286884
    @@ "PIN" :> ("MSB" :> 15 @@ "LSB" :> 0))
  @@ "ICR" :> ("addr" :> 286888
    @@ "PIN" :> ("MSB" :> 15 @@ "LSB" :> 0))
  @@ "MODULE_INFO" :> ("addr" :> 286972
    @@ "PATCH" :> ("MSB" :> 7 @@ "LSB" :> 0)
    @@ "MINOR" :> ("MSB" :> 15 @@ "LSB" :> 8)
    @@ "MAJOR" :> ("MSB" :> 23 @@ "LSB" :> 16)
    @@ "TYPE" :> ("MSB" :> 27 @@ "LSB" :> 27)
    @@ "BLOCK" :> ("MSB" :> 31 @@ "LSB" :> 28)))

\* FPGA_Reg.registers["wfg_sysctrl_reg"]
wfg_sysctrl_reg ==
  ("PRODUCT" :> ("addr" :> 294912
    @@ "ID" :> ("MSB" :> 31 @@ "LSB" :> 0))
  @@ "FPGA_VERSION" :> ("addr" :> 294916
    @@ "PATCH" :> ("MSB" :> 7 @@ "LSB" :> 0)
    @@ "MINOR" :> ("MSB" :> 15 @@ "LSB" :> 8)
    @@ "MAJOR" :> ("MSB" :> 23 @@ "LSB" :> 16)
    @@ "DEV" :> ("MSB" :> 24 @@ "LSB" :> 24))
  @@ "GENDATE" :> ("addr" :> 294920
    @@ "YEAR" :> ("MSB" :> 10 @@ "LSB" :> 0)
    @@ "MONTH" :> ("MSB" :> 14 @@ "LSB" :> 11)
    @@ "DAY" :> ("MSB" :> 19 @@ "LSB" :> 15)
    @@ "HOUR" :> ("MSB" :> 23 @@ "LSB" :> 20)
    @@ "MINUTE" :> ("MSB" :> 29 @@ "LSB" :> 24))
  @@ "CLK_SPEED" :> ("addr" :> 294924
    @@ "VAL" :> ("MSB" :> 7 @@ "LSB" :> 0))
  @@ "SOC_CTRL" :> ("addr" :> 294928
    @@ "FETCH_ENABLE" :> ("MSB" :> 0 @@ "LSB" :> 0)
    @@ "CORE_RESET_N" :> ("MSB" :> 1 @@ "LSB" :> 1))
  @@ "SOC_STATUS" :> ("addr" :> 294932
    @@ "CORE_SLEEP" :> ("MSB" :> 0 @@ "LSB" :> 0))
  @@ "RESET_FLAGS" :> ("addr" :> 294944
    @@ "WFG" :> ("MSB" :> 0 @@ "LSB" :> 0)
    @@ "SOC" :> ("MSB" :> 1 @@ "LSB" :> 1))
  @@ "RESET_CLEARS" :> ("addr" :> 294948
    @@ "WFG" :> ("MSB" :> 0 @@ "LSB" :> 0)
    @@ "SOC" :> ("MSB" :> 1 @@ "LSB" :> 1))
  @@ "ISR" :> ("addr" :> 295072
    @@ "WISHBONE_INVALID_ADDRESS" :> ("MSB" :> 0 @@ "LSB" :> 0))
  @@ "IER" :> ("addr" :> 295076
    @@ "WISHBONE_INVALID_ADDRESS" :> ("MSB" :> 0 @@ "LSB" :> 0))
  @@ "ICR" :> ("addr" :> 295080
    @@ "WISHBONE_INVALID_ADDRESS" :> ("MSB" :> 0 @@ "LSB" :> 0))
  @@ "INTERRUPT_MIRROR" :> ("addr" :> 295088
    @@ "VECTOR" :> ("MSB" :> 31 @@ "LSB" :> 0))
  @@ "MODULE_INFO" :> ("addr" :> 295164
    @@ "PATCH" :> ("MSB" :> 7 @@ "LSB" :> 0)
    @@ "MINOR" :> ("MSB" :> 15 @@ "LSB" :> 8)
    @@ "MAJOR" :> ("MSB" :> 23 @@ "LSB" :> 16)
    @@ "TYPE" :> ("MSB" :> 27 @@ "LSB" :> 27)
    @@ "BLOCK" :> ("MSB" :> 31 @@ "LSB" :> 28)))

\* FPGA_Reg.registers["wfg_stim_mem_top_0"]
wfg_stim_mem_top_0 ==
  ("CTRL" :> ("addr" :> 393216
    @@ "EN" :> ("MSB" :> 0 @@ "LSB" :> 0))
  @@ "CFG" :> ("addr" :> 393220
    @@ "CNT" :> ("MSB" :> 7 @@ "LSB" :> 0))
  @@ "START" :> ("addr" :> 393224
    @@ "VAL" :> ("MSB" :> 12 @@ "LSB" :> 0))
  @@ "STOP" :> ("addr" :> 393228
    @@ "VAL" :> ("MSB" :> 13 @@ "LSB" :> 0))
  @@ "STEP" :> ("addr" :> 393232
    @@ "VAL" :> ("MSB" :> 12 @@ "LSB" :> 0))
  @@ "ADDR" :> ("addr" :> 393236
    @@ "VAL" :> ("MSB" :> 12 @@ "LSB" :> 0))
  @@ "GAIN" :> ("addr" :> 393240
    @@ "VAL" :> ("MSB" :> 15 @@ "LSB" :> 0))
  @@ "OFFSET" :> ("addr" :> 393244
    @@ "VAL" :> ("MSB" :> 31 @@ "LSB" :> 0))
  @@ "ISR" :> ("addr" :> 393376
    @@ "DONE" :> ("MSB" :> 0 @@ "LSB" :> 0)
    @@ "END" :> ("MSB" :> 1 @@ "LSB" :> 1))
  @@ "IER" :> ("addr" :> 393380
    @@ "DONE" :> ("MSB" :> 0 @@ "LSB" :> 0)
    @@ "END" :> ("MSB" :> 1 @@ "LSB" :> 1))
  @@ "ICR" :> ("addr" :> 393384
    @@ "DONE" :> ("MSB" :> 0 @@ "LSB" :> 0)
    @@ "END" :> ("MSB" :> 1 @@ "LSB" :> 1))
  @@ "MODULE_INFO" :> ("addr" :> 393468
    @@ "PATCH" :> ("MSB" :> 7 @@ "LSB" :> 0)
    @@ "MINOR" :> ("MSB" :> 15 @@ "LSB" :> 8)
    @@ "MAJOR" :> ("MSB" :> 23 @@ "LSB" :> 16)
    @@ "TYPE" :> ("MSB" :> 27 @@ "LSB" :> 27)
    @@ "BLOCK" :> ("MSB" :> 31 @@ "LSB" :> 28)))

\* FPGA_Reg.registers["wfg_stim_mem_top_1"]
wfg_stim_mem_top_1 ==
  ("CTRL" :> ("addr" :> 393472
    @@ "EN" :> ("MSB" :> 0 @@ "LSB" :> 0))
  @@ "CFG" :> ("addr" :> 393476
    @@ "CNT" :> ("MSB" :> 7 @@ "LSB" :> 0))
  @@ "START" :> ("addr" :> 393480
    @@ "VAL" :> ("MSB" :> 12 @@ "LSB" :> 0))
  @@ "STOP" :> ("addr" :> 393484
    @@ "VAL" :> ("MSB" :> 13 @@ "LSB" :> 0))
  @@ "STEP" :> ("addr" :> 393488
    @@ "VAL" :> ("MSB" :> 12 @@ "LSB" :> 0))
  @@ "ADDR" :> ("addr" :> 393492
    @@ "VAL" :> ("MSB" :> 12 @@ "LSB" :> 0))
  @@ "GAIN" :> ("addr" :> 393496
    @@ "VAL" :> ("MSB" :> 15 @@ "LSB" :> 0))
  @@ "OFFSET" :> ("addr" :> 393500
    @@ "VAL" :> ("MSB" :> 31 @@ "LSB" :> 0))
  @@ "ISR" :> ("addr" :> 393632
    @@ "DONE" :> ("MSB" :> 0 @@ "LSB" :> 0)
    @@ "END" :> ("MSB" :> 1 @@ "LSB" :> 1))
  @@ "IER" :> ("addr" :> 393636
    @@ "DONE" :> ("MSB" :> 0 @@ "LSB" :> 0)
    @@ "END" :> ("MSB" :> 1 @@ "LSB" :> 1))
  @@ "ICR" :> ("addr" :> 393640
    @@ "DONE" :> ("MSB" :> 0 @@ "LSB" :> 0)
    @@ "END" :> ("MSB" :> 1 @@ "LSB" :> 1))
  @@ "MODULE_INFO" :> ("addr" :> 393724
    @@ "PATCH" :> ("MSB" :> 7 @@ "LSB" :> 0)
    @@ "MINOR" :> ("MSB" :> 15 @@ "LSB" :> 8)
    @@ "MAJOR" :> ("MSB" :> 23 @@ "LSB" :> 16)
    @@ "TYPE" :> ("MSB" :> 27 @@ "LSB" :> 27)
    @@ "BLOCK" :> ("MSB" :> 31 @@ "LSB" :> 28)))

\* FPGA_Reg.registers["wfg_stim_mem_top_2"]
wfg_stim_mem_top_2 ==
  ("CTRL" :> ("addr" :> 393728
    @@ "EN" :> ("MSB" :> 0 @@ "LSB" :> 0))
  @@ "CFG" :> ("addr" :> 393732
    @@ "CNT" :> ("MSB" :> 7 @@ "LSB" :> 0))
  @@ "START" :> ("addr" :> 393736
    @@ "VAL" :> ("MSB" :> 12 @@ "LSB" :> 0))
  @@ "STOP" :> ("addr" :> 393740
    @@ "VAL" :> ("MSB" :> 13 @@ "LSB" :> 0))
  @@ "STEP" :> ("addr" :> 393744
    @@ "VAL" :> ("MSB" :> 12 @@ "LSB" :> 0))
  @@ "ADDR" :> ("addr" :> 393748
    @@ "VAL" :> ("MSB" :> 12 @@ "LSB" :> 0))
  @@ "GAIN" :> ("addr" :> 393752
    @@ "VAL" :> ("MSB" :> 15 @@ "LSB" :> 0))
  @@ "OFFSET" :> ("addr" :> 393756
    @@ "VAL" :> ("MSB" :> 31 @@ "LSB" :> 0))
  @@ "ISR" :> ("addr" :> 393888
    @@ "DONE" :> ("MSB" :> 0 @@ "LSB" :> 0)
    @@ "END" :> ("MSB" :> 1 @@ "LSB" :> 1))
  @@ "IER" :> ("addr" :> 393892
    @@ "DONE" :> ("MSB" :> 0 @@ "LSB" :> 0)
    @@ "END" :> ("MSB" :> 1 @@ "LSB" :> 1))
  @@ "ICR" :> ("addr" :> 393896
    @@ "DONE" :> ("MSB" :> 0 @@ "LSB" :> 0)
    @@ "END" :> ("MSB" :> 1 @@ "LSB" :> 1))
  @@ "MODULE_INFO" :> ("addr" :> 393980
    @@ "PATCH" :> ("MSB" :> 7 @@ "LSB" :> 0)
    @@ "MINOR" :> ("MSB" :> 15 @@ "LSB" :> 8)
    @@ "MAJOR" :> ("MSB" :> 23 @@ "LSB" :> 16)
    @@ "TYPE" :> ("MSB" :> 27 @@ "LSB" :> 27)
    @@ "BLOCK" :> ("MSB" :> 31 @@ "LSB" :> 28)))

\* FPGA_Reg.registers["wfg_stim_mem_top_3"]
wfg_stim_mem_top_3 ==
  ("CTRL" :> ("addr" :> 393984
    @@ "EN" :> ("MSB" :> 0 @@ "LSB" :> 0))
  @@ "CFG" :> ("addr" :> 393988
    @@ "CNT" :> ("MSB" :> 7 @@ "LSB" :> 0))
  @@ "START" :> ("addr" :> 393992
    @@ "VAL" :> ("MSB" :> 12 @@ "LSB" :> 0))
  @@ "STOP" :> ("addr" :> 393996
    @@ "VAL" :> ("MSB" :> 13 @@ "LSB" :> 0))
  @@ "STEP" :> ("addr" :> 394000
    @@ "VAL" :> ("MSB" :> 12 @@ "LSB" :> 0))
  @@ "ADDR" :> ("addr" :> 394004
    @@ "VAL" :> ("MSB" :> 12 @@ "LSB" :> 0))
  @@ "GAIN" :> ("addr" :> 394008
    @@ "VAL" :> ("MSB" :> 15 @@ "LSB" :> 0))
  @@ "OFFSET" :> ("addr" :> 394012
    @@ "VAL" :> ("MSB" :> 31 @@ "LSB" :> 0))
  @@ "ISR" :> ("addr" :> 394144
    @@ "DONE" :> ("MSB" :> 0 @@ "LSB" :> 0)
    @@ "END" :> ("MSB" :> 1 @@ "LSB" :> 1))
  @@ "IER" :> ("addr" :> 394148
    @@ "DONE" :> ("MSB" :> 0 @@ "LSB" :> 0)
    @@ "END" :> ("MSB" :> 1 @@ "LSB" :> 1))
  @@ "ICR" :> ("addr" :> 394152
    @@ "DONE" :> ("MSB" :> 0 @@ "LSB" :> 0)
    @@ "END" :> ("MSB" :> 1 @@ "LSB" :> 1))
  @@ "MODULE_INFO" :> ("addr" :> 394236
    @@ "PATCH" :> ("MSB" :> 7 @@ "LSB" :> 0)
    @@ "MINOR" :> ("MSB" :> 15 @@ "LSB" :> 8)
    @@ "MAJOR" :> ("MSB" :> 23 @@ "LSB" :> 16)
    @@ "TYPE" :> ("MSB" :> 27 @@ "LSB" :> 27)
    @@ "BLOCK" :> ("MSB" :> 31 @@ "LSB" :> 28)))

\* FPGA_Reg.registers["wfg_drive_spi_top_0"]
wfg_drive_spi_top_0 ==
  ("CTRL" :> ("addr" :> 524288
    @@ "EN" :> ("MSB" :> 0 @@ "LSB" :> 0))
  @@ "CFG" :> ("addr" :> 524292
    @@ "CPOL" :> ("MSB" :> 0 @@ "LSB" :> 0)
    @@ "CPHA" :> ("MSB" :> 1 @@ "LSB" :> 1)
    @@ "LSBFIRST" :> ("MSB" :> 2 @@ "LSB" :> 2)
    @@ "SSPOL" :> ("MSB" :> 3 @@ "LSB" :> 3)
    @@ "CORE_SEL" :> ("MSB" :> 4 @@ "LSB" :> 4)
    @@ "CORE_DEPENDENT" :> ("MSB" :> 5 @@ "LSB" :> 5)
    @@ "IO_DELAY_COMPENSATION" :> ("MSB" :> 8 @@ "LSB" :> 6))
  @@ "CLKCFG" :> ("addr" :> 524296
    @@ "DIV" :> ("MSB" :> 31 @@ "LSB" :> 0))
  @@ "SPI_LEN" :> ("addr" :> 524300
    @@ "VAL" :> ("MSB" :> 5 @@ "LSB" :> 0))
  @@ "CS_HIGH_TIME" :> ("addr" :> 524304
    @@ "VAL" :> ("MSB" :> 31 @@ "LSB" :> 0))
  @@ "CS_ACTIVE_DELAY_TIME" :> ("addr" :> 524308
    @@ "VAL" :> ("MSB" :> 31 @@ "LSB" :> 0))
  @@ "MODULE_INFO" :> ("addr" :> 524540
    @@ "PATCH" :> ("MSB" :> 7 @@ "LSB" :> 0)
    @@ "MINOR" :> ("MSB" :> 15 @@ "LSB" :> 8)
    @@ "MAJOR" :> ("MSB" :> 23 @@ "LSB" :> 16)
    @@ "TYPE" :> ("MSB" :> 27 @@ "LSB" :> 27)
    @@ "BLOCK" :> ("MSB" :> 31 @@ "LSB" :> 28)))

\* FPGA_Reg.registers["wfg_drive_spi_top_1"]
wfg_drive_spi_top_1 ==
  ("CTRL" :> ("addr" :> 524544
    @@ "EN" :> ("MSB" :> 0 @@ "LSB" :> 0))
  @@ "CFG" :> ("addr" :> 524548
    @@ "CPOL" :> ("MSB" :> 0 @@ "LSB" :> 0)
    @@ "CPHA" :> ("MSB" :> 1 @@ "LSB" :> 1)
    @@ "LSBFIRST" :> ("MSB" :> 2 @@ "LSB" :> 2)
    @@ "SSPOL" :> ("MSB" :> 3 @@ "LSB" :> 3)
    @@ "CORE_SEL" :> ("MSB" :> 4 @@ "LSB" :> 4)
    @@ "CORE_DEPENDENT" :> ("MSB" :> 5 @@ "LSB" :> 5)
    @@ "IO_DELAY_COMPENSATION" :> ("MSB" :> 8 @@ "LSB" :> 6))
  @@ "CLKCFG" :> ("addr" :> 524552
    @@ "DIV" :> ("MSB" :> 31 @@ "LSB" :> 0))
  @@ "SPI_LEN" :> ("addr" :> 524556
    @@ "VAL" :> ("MSB" :> 5 @@ "LSB" :> 0))
  @@ "CS_HIGH_TIME" :> ("addr" :> 524560
    @@ "VAL" :> ("MSB" :> 31 @@ "LSB" :> 0))
  @@ "CS_ACTIVE_DELAY_TIME" :> ("addr" :> 524564
    @@ "VAL" :> ("MSB" :> 31 @@ "LSB" :> 0))
  @@ "MODULE_INFO" :> ("addr" :> 524796
    @@ "PATCH" :> ("MSB" :> 7 @@ "LSB" :> 0)
    @@ "MINOR" :> ("MSB" :> 15 @@ "LSB" :> 8)
    @@ "MAJOR" :> ("MSB" :> 23 @@ "LSB" :> 16)
    @@ "TYPE" :> ("MSB" :> 27 @@ "LSB" :> 27)
    @@ "BLOCK" :> ("MSB" :> 31 @@ "LSB" :> 28)))

\* FPGA_Reg.registers["wfg_drive_pat_top_0"]
wfg_drive_pat_top_0 ==
  ("CTRL" :> ("addr" :> 532480
    @@ "EN" :> ("MSB" :> 15 @@ "LSB" :> 0))
  @@ "CFG" :> ("addr" :> 532484
    @@ "BEGIN" :> ("MSB" :> 7 @@ "LSB" :> 0)
    @@ "END" :> ("MSB" :> 15 @@ "LSB" :> 8)
    @@ "CORE_SEL" :> ("MSB" :> 16 @@ "LSB" :> 16))
  @@ "PATSEL0" :> ("addr" :> 532488
    @@ "LOW" :> ("MSB" :> 15 @@ "LSB" :> 0))
  @@ "PATSEL1" :> ("addr" :> 532492
    @@ "HIGH" :> ("MSB" :> 15 @@ "LSB" :> 0))
  @@ "MODULE_INFO" :> ("addr" :> 532732
    @@ "PATCH" :> ("MSB" :> 7 @@ "LSB" :> 0)
    @@ "MINOR" :> ("MSB" :> 15 @@ "LSB" :> 8)
    @@ "MAJOR" :> ("MSB" :> 23 @@ "LSB" :> 16)
    @@ "TYPE" :> ("MSB" :> 27 @@ "LSB" :> 27)
    @@ "BLOCK" :> ("MSB" :> 31 @@ "LSB" :> 28)))

\* FPGA_Reg.registers["wfg_drive_i2c_top_0"]
wfg_drive_i2c_top_0 ==
  ("CTRL" :> ("addr" :> 540672
    @@ "EN" :> ("MSB" :> 0 @@ "LSB" :> 0))
  @@ "CFG" :> ("addr" :> 540676
    @@ "DEV_ID" :> ("MSB" :> 6 @@ "LSB" :> 0)
    @@ "WAIT_STATE_ENABLED" :> ("MSB" :> 8 @@ "LSB" :> 8)
    @@ "CORE_SEL" :> ("MSB" :> 16 @@ "LSB" :> 16)
    @@ "CORE_DEPENDENT" :> ("MSB" :> 17 @@ "LSB" :> 17))
  @@ "CLKCFG" :> ("addr" :> 540680
    @@ "DIV" :> ("MSB" :> 31 @@ "LSB" :> 0))
  @@ "ISR" :> ("addr" :> 540832
    @@ "COMMAND_FRAME_ERROR" :> ("MSB" :> 0 @@ "LSB" :> 0)
    @@ "DATA_FRAME_ERROR" :> ("MSB" :> 1 @@ "LSB" :> 1))
  @@ "IER" :> ("addr" :> 540836
    @@ "COMMAND_FRAME_ERROR" :> ("MSB" :> 0 @@ "LSB" :> 0)
    @@ "DATA_FRAME_ERROR" :> ("MSB" :> 1 @@ "LSB" :> 1))
  @@ "ICR" :> ("addr" :> 540840
    @@ "COMMAND_FRAME_ERROR" :> ("MSB" :> 0 @@ "LSB" :> 0)
    @@ "DATA_FRAME_ERROR" :> ("MSB" :> 1 @@ "LSB" :> 1))
  @@ "MODULE_INFO" :> ("addr" :> 540924
    @@ "PATCH" :> ("MSB" :> 7 @@ "LSB" :> 0)
    @@ "MINOR" :> ("MSB" :> 15 @@ "LSB" :> 8)
    @@ "MAJOR" :> ("MSB" :> 23 @@ "LSB" :> 16)
    @@ "TYPE" :> ("MSB" :> 27 @@ "LSB" :> 27)
    @@ "BLOCK" :> ("MSB" :> 31 @@ "LSB" :> 28)))

\* FPGA_Reg.registers["wfg_drive_i2c_top_1"]
wfg_drive_i2c_top_1 ==
  ("CTRL" :> ("addr" :> 540928
    @@ "EN" :> ("MSB" :> 0 @@ "LSB" :> 0))
  @@ "CFG" :> ("addr" :> 540932
    @@ "DEV_ID" :> ("MSB" :> 6 @@ "LSB" :> 0)
    @@ "WAIT_STATE_ENABLED" :> ("MSB" :> 8 @@ "LSB" :> 8)
    @@ "CORE_SEL" :> ("MSB" :> 16 @@ "LSB" :> 16)
    @@ "CORE_DEPENDENT" :> ("MSB" :> 17 @@ "LSB" :> 17))
  @@ "CLKCFG" :> ("addr" :> 540936
    @@ "DIV" :> ("MSB" :> 31 @@ "LSB" :> 0))
  @@ "ISR" :> ("addr" :> 541088
    @@ "COMMAND_FRAME_ERROR" :> ("MSB" :> 0 @@ "LSB" :> 0)
    @@ "DATA_FRAME_ERROR" :> ("MSB" :> 1 @@ "LSB" :> 1))
  @@ "IER" :> ("addr" :> 541092
    @@ "COMMAND_FRAME_ERROR" :> ("MSB" :> 0 @@ "LSB" :> 0)
    @@ "DATA_FRAME_ERROR" :> ("MSB" :> 1 @@ "LSB" :> 1))
  @@ "ICR" :> ("addr" :> 541096
    @@ "COMMAND_FRAME_ERROR" :> ("MSB" :> 0 @@ "LSB" :> 0)
    @@ "DATA_FRAME_ERROR" :> ("MSB" :> 1 @@ "LSB" :> 1))
  @@ "MODULE_INFO" :> ("addr" :> 541180
    @@ "PATCH" :> ("MSB" :> 7 @@ "LSB" :> 0)
    @@ "MINOR" :> ("MSB" :> 15 @@ "LSB" :> 8)
    @@ "MAJOR" :> ("MSB" :> 23 @@ "LSB" :> 16)
    @@ "TYPE" :> ("MSB" :> 27 @@ "LSB" :> 27)
    @@ "BLOCK" :> ("MSB" :> 31 @@ "LSB" :> 28)))

\* FPGA_Reg.registers["wfg_drive_i2ct_top_0"]
wfg_drive_i2ct_top_0 ==
  ("CTRL" :> ("addr" :> 557056
    @@ "EN" :> ("MSB" :> 0 @@ "LSB" :> 0))
  @@ "CFG" :> ("addr" :> 557060
    @@ "DEVID" :> ("MSB" :> 7 @@ "LSB" :> 1)
    @@ "ADDRSIZE" :> ("MSB" :> 8 @@ "LSB" :> 8)
    @@ "DATASIZE" :> ("MSB" :> 17 @@ "LSB" :> 16))
  @@ "REGCFG" :> ("addr" :> 557072
    @@ "AUTOINC" :> ("MSB" :> 0 @@ "LSB" :> 0))
  @@ "REGADDR" :> ("addr" :> 557076
    @@ "ADDR" :> ("MSB" :> 15 @@ "LSB" :> 0))
  @@ "REGWDATA" :> ("addr" :> 557080
    @@ "DATA" :> ("MSB" :> 31 @@ "LSB" :> 0))
  @@ "REGWMASK" :> ("addr" :> 557084
    @@ "MASK" :> ("MSB" :> 31 @@ "LSB" :> 0))
  @@ "REGRDATA" :> ("addr" :> 557088
    @@ "DATA" :> ("MSB" :> 31 @@ "LSB" :> 0))
  @@ "REGRMASK" :> ("addr" :> 557092
    @@ "MASK" :> ("MSB" :> 31 @@ "LSB" :> 0)))

\* FPGA_Reg.registers["wfg_drive_uart_top_0"]
wfg_drive_uart_top_0 ==
  ("CTRL" :> ("addr" :> 548864
    @@ "EN" :> ("MSB" :> 0 @@ "LSB" :> 0)
    @@ "" :> ("MSB" :> 31 @@ "LSB" :> 31))
  @@ "CFG" :> ("addr" :> 548868
    @@ "CORE_SEL" :> ("MSB" :> 0 @@ "LSB" :> 0)
    @@ "TXSIZE" :> ("MSB" :> 4 @@ "LSB" :> 1)
    @@ "CORE_DEPENDENT" :> ("MSB" :> 7 @@ "LSB" :> 7)
    @@ "CDIV" :> ("MSB" :> 31 @@ "LSB" :> 8))
  @@ "CFG2" :> ("addr" :> 548872
    @@ "PARITY_SEL" :> ("MSB" :> 1 @@ "LSB" :> 0)
    @@ "STOP_SEL" :> ("MSB" :> 3 @@ "LSB" :> 2)
    @@ "TX_DELAY" :> ("MSB" :> 19 @@ "LSB" :> 4)
    @@ "SHIFT_DIR" :> ("MSB" :> 20 @@ "LSB" :> 20))
  @@ "RX_CFG" :> ("addr" :> 548876
    @@ "TIMEOUT" :> ("MSB" :> 9 @@ "LSB" :> 0))
  @@ "ISR" :> ("addr" :> 549024
    @@ "TIMEOUT_REACHED" :> ("MSB" :> 0 @@ "LSB" :> 0)
    @@ "FRAME_ERROR" :> ("MSB" :> 1 @@ "LSB" :> 1))
  @@ "IER" :> ("addr" :> 549028
    @@ "TIMEOUT_REACHED" :> ("MSB" :> 0 @@ "LSB" :> 0)
    @@ "FRAME_ERROR" :> ("MSB" :> 1 @@ "LSB" :> 1))
  @@ "ICR" :> ("addr" :> 549032
    @@ "TIMEOUT_REACHED" :> ("MSB" :> 0 @@ "LSB" :> 0)
    @@ "FRAME_ERROR" :> ("MSB" :> 1 @@ "LSB" :> 1))
  @@ "MODULE_INFO" :> ("addr" :> 549116
    @@ "PATCH" :> ("MSB" :> 7 @@ "LSB" :> 0)
    @@ "MINOR" :> ("MSB" :> 15 @@ "LSB" :> 8)
    @@ "MAJOR" :> ("MSB" :> 23 @@ "LSB" :> 16)
    @@ "TYPE" :> ("MSB" :> 27 @@ "LSB" :> 27)
    @@ "BLOCK" :> ("MSB" :> 31 @@ "LSB" :> 28)))

\* FPGA_Reg.registers["wfg_drive_uart_top_1"]
wfg_drive_uart_top_1 ==
  ("CTRL" :> ("addr" :> 549120
    @@ "EN" :> ("MSB" :> 0 @@ "LSB" :> 0)
    @@ "" :> ("MSB" :> 31 @@ "LSB" :> 31))
  @@ "CFG" :> ("addr" :> 549124
    @@ "CORE_SEL" :> ("MSB" :> 0 @@ "LSB" :> 0)
    @@ "TXSIZE" :> ("MSB" :> 4 @@ "LSB" :> 1)
    @@ "CORE_DEPENDENT" :> ("MSB" :> 7 @@ "LSB" :> 7)
    @@ "CDIV" :> ("MSB" :> 31 @@ "LSB" :> 8))
  @@ "CFG2" :> ("addr" :> 549128
    @@ "PARITY_SEL" :> ("MSB" :> 1 @@ "LSB" :> 0)
    @@ "STOP_SEL" :> ("MSB" :> 3 @@ "LSB" :> 2)
    @@ "TX_DELAY" :> ("MSB" :> 19 @@ "LSB" :> 4)
    @@ "SHIFT_DIR" :> ("MSB" :> 20 @@ "LSB" :> 20))
  @@ "RX_CFG" :> ("addr" :> 549132
    @@ "TIMEOUT" :> ("MSB" :> 9 @@ "LSB" :> 0))
  @@ "ISR" :> ("addr" :> 549280
    @@ "TIMEOUT_REACHED" :> ("MSB" :> 0 @@ "LSB" :> 0)
    @@ "FRAME_ERROR" :> ("MSB" :> 1 @@ "LSB" :> 1))
  @@ "IER" :> ("addr" :> 549284
    @@ "TIMEOUT_REACHED" :> ("MSB" :> 0 @@ "LSB" :> 0)
    @@ "FRAME_ERROR" :> ("MSB" :> 1 @@ "LSB" :> 1))
  @@ "ICR" :> ("addr" :> 549288
    @@ "TIMEOUT_REACHED" :> ("MSB" :> 0 @@ "LSB" :> 0)
    @@ "FRAME_ERROR" :> ("MSB" :> 1 @@ "LSB" :> 1))
  @@ "MODULE_INFO" :> ("addr" :> 549372
    @@ "PATCH" :> ("MSB" :> 7 @@ "LSB" :> 0)
    @@ "MINOR" :> ("MSB" :> 15 @@ "LSB" :> 8)
    @@ "MAJOR" :> ("MSB" :> 23 @@ "LSB" :> 16)
    @@ "TYPE" :> ("MSB" :> 27 @@ "LSB" :> 27)
    @@ "BLOCK" :> ("MSB" :> 31 @@ "LSB" :> 28)))

\* FPGA_Reg.registers["wfg_record_mem_top_0"]
wfg_record_mem_top_0 ==
  ("CTRL" :> ("addr" :> 655360
    @@ "EN" :> ("MSB" :> 0 @@ "LSB" :> 0))
  @@ "CFG" :> ("addr" :> 655364
    @@ "CNT" :> ("MSB" :> 7 @@ "LSB" :> 0))
  @@ "START" :> ("addr" :> 655368
    @@ "VAL" :> ("MSB" :> 12 @@ "LSB" :> 0))
  @@ "STOP" :> ("addr" :> 655372
    @@ "VAL" :> ("MSB" :> 12 @@ "LSB" :> 0))
  @@ "STEP" :> ("addr" :> 655376
    @@ "VAL" :> ("MSB" :> 12 @@ "LSB" :> 0))
  @@ "ADDR" :> ("addr" :> 655380
    @@ "VAL" :> ("MSB" :> 12 @@ "LSB" :> 0))
  @@ "ISR" :> ("addr" :> 655520
    @@ "DONE" :> ("MSB" :> 0 @@ "LSB" :> 0)
    @@ "END" :> ("MSB" :> 1 @@ "LSB" :> 1))
  @@ "IER" :> ("addr" :> 655524
    @@ "DONE" :> ("MSB" :> 0 @@ "LSB" :> 0)
    @@ "END" :> ("MSB" :> 1 @@ "LSB" :> 1))
  @@ "ICR" :> ("addr" :> 655528
    @@ "DONE" :> ("MSB" :> 0 @@ "LSB" :> 0)
    @@ "END" :> ("MSB" :> 1 @@ "LSB" :> 1))
  @@ "MODULE_INFO" :> ("addr" :> 655612
    @@ "PATCH" :> ("MSB" :> 7 @@ "LSB" :> 0)
    @@ "MINOR" :> ("MSB" :> 15 @@ "LSB" :> 8)
    @@ "MAJOR" :> ("MSB" :> 23 @@ "LSB" :> 16)
    @@ "TYPE" :> ("MSB" :> 27 @@ "LSB" :> 27)
    @@ "BLOCK" :> ("MSB" :> 31 @@ "LSB" :> 28)))

\* FPGA_Reg.registers["wfg_record_mem_top_1"]
wfg_record_mem_top_1 ==
  ("CTRL" :> ("addr" :> 655616
    @@ "EN" :> ("MSB" :> 0 @@ "LSB" :> 0))
  @@ "CFG" :> ("addr" :> 655620
    @@ "CNT" :> ("MSB" :> 7 @@ "LSB" :> 0))
  @@ "START" :> ("addr" :> 655624
    @@ "VAL" :> ("MSB" :> 12 @@ "LSB" :> 0))
  @@ "STOP" :> ("addr" :> 655628
    @@ "VAL" :> ("MSB" :> 12 @@ "LSB" :> 0))
  @@ "STEP" :> ("addr" :> 655632
    @@ "VAL" :> ("MSB" :> 12 @@ "LSB" :> 0))
  @@ "ADDR" :> ("addr" :> 655636
    @@ "VAL" :> ("MSB" :> 12 @@ "LSB" :> 0))
  @@ "ISR" :> ("addr" :> 655776
    @@ "DONE" :> ("MSB" :> 0 @@ "LSB" :> 0)
    @@ "END" :> ("MSB" :> 1 @@ "LSB" :> 1))
  @@ "IER" :> ("addr" :> 655780
    @@ "DONE" :> ("MSB" :> 0 @@ "LSB" :> 0)
    @@ "END" :> ("MSB" :> 1 @@ "LSB" :> 1))
  @@ "ICR" :> ("addr" :> 655784
    @@ "DONE" :> ("MSB" :> 0 @@ "LSB" :> 0)
    @@ "END" :> ("MSB" :> 1 @@ "LSB" :> 1))
  @@ "MODULE_INFO" :> ("addr" :> 655868
    @@ "PATCH" :> ("MSB" :> 7 @@ "LSB" :> 0)
    @@ "MINOR" :> ("MSB" :> 15 @@ "LSB" :> 8)
    @@ "MAJOR" :> ("MSB" :> 23 @@ "LSB" :> 16)
    @@ "TYPE" :> ("MSB" :> 27 @@ "LSB" :> 27)
    @@ "BLOCK" :> ("MSB" :> 31 @@ "LSB" :> 28)))

\* FPGA_Reg.registers["wfg_record_mem_top_2"]
wfg_record_mem_top_2 ==
  ("CTRL" :> ("addr" :> 655872
    @@ "EN" :> ("MSB" :> 0 @@ "LSB" :> 0))
  @@ "CFG" :> ("addr" :> 655876
    @@ "CNT" :> ("MSB" :> 7 @@ "LSB" :> 0))
  @@ "START" :> ("addr" :> 655880
    @@ "VAL" :> ("MSB" :> 12 @@ "LSB" :> 0))
  @@ "STOP" :> ("addr" :> 655884
    @@ "VAL" :> ("MSB" :> 12 @@ "LSB" :> 0))
  @@ "STEP" :> ("addr" :> 655888
    @@ "VAL" :> ("MSB" :> 12 @@ "LSB" :> 0))
  @@ "ADDR" :> ("addr" :> 655892
    @@ "VAL" :> ("MSB" :> 12 @@ "LSB" :> 0))
  @@ "ISR" :> ("addr" :> 656032
    @@ "DONE" :> ("MSB" :> 0 @@ "LSB" :> 0)
    @@ "END" :> ("MSB" :> 1 @@ "LSB" :> 1))
  @@ "IER" :> ("addr" :> 656036
    @@ "DONE" :> ("MSB" :> 0 @@ "LSB" :> 0)
    @@ "END" :> ("MSB" :> 1 @@ "LSB" :> 1))
  @@ "ICR" :> ("addr" :> 656040
    @@ "DONE" :> ("MSB" :> 0 @@ "LSB" :> 0)
    @@ "END" :> ("MSB" :> 1 @@ "LSB" :> 1))
  @@ "MODULE_INFO" :> ("addr" :> 656124
    @@ "PATCH" :> ("MSB" :> 7 @@ "LSB" :> 0)
    @@ "MINOR" :> ("MSB" :> 15 @@ "LSB" :> 8)
    @@ "MAJOR" :> ("MSB" :> 23 @@ "LSB" :> 16)
    @@ "TYPE" :> ("MSB" :> 27 @@ "LSB" :> 27)
    @@ "BLOCK" :> ("MSB" :> 31 @@ "LSB" :> 28)))

\* FPGA_Reg.registers["wfg_record_mem_top_3"]
wfg_record_mem_top_3 ==
  ("CTRL" :> ("addr" :> 656128
    @@ "EN" :> ("MSB" :> 0 @@ "LSB" :> 0))
  @@ "CFG" :> ("addr" :> 656132
    @@ "CNT" :> ("MSB" :> 7 @@ "LSB" :> 0))
  @@ "START" :> ("addr" :> 656136
    @@ "VAL" :> ("MSB" :> 12 @@ "LSB" :> 0))
  @@ "STOP" :> ("addr" :> 656140
    @@ "VAL" :> ("MSB" :> 12 @@ "LSB" :> 0))
  @@ "STEP" :> ("addr" :> 656144
    @@ "VAL" :> ("MSB" :> 12 @@ "LSB" :> 0))
  @@ "ADDR" :> ("addr" :> 656148
    @@ "VAL" :> ("MSB" :> 12 @@ "LSB" :> 0))
  @@ "ISR" :> ("addr" :> 656288
    @@ "DONE" :> ("MSB" :> 0 @@ "LSB" :> 0)
    @@ "END" :> ("MSB" :> 1 @@ "LSB" :> 1))
  @@ "IER" :> ("addr" :> 656292
    @@ "DONE" :> ("MSB" :> 0 @@ "LSB" :> 0)
    @@ "END" :> ("MSB" :> 1 @@ "LSB" :> 1))
  @@ "ICR" :> ("addr" :> 656296
    @@ "DONE" :> ("MSB" :> 0 @@ "LSB" :> 0)
    @@ "END" :> ("MSB" :> 1 @@ "LSB" :> 1))
  @@ "MODULE_INFO" :> ("addr" :> 656380
    @@ "PATCH" :> ("MSB" :> 7 @@ "LSB" :> 0)
    @@ "MINOR" :> ("MSB" :> 15 @@ "LSB" :> 8)
    @@ "MAJOR" :> ("MSB" :> 23 @@ "LSB" :> 16)
    @@ "TYPE" :> ("MSB" :> 27 @@ "LSB" :> 27)
    @@ "BLOCK" :> ("MSB" :> 31 @@ "LSB" :> 28)))

\* FPGA_Reg.registers: module -> register -> {addr, field -> {MSB, LSB}}
registers ==
  ("wfg_interconnect_top" :> wfg_interconnect_top
  @@ "wfg_core_top" :> wfg_core_top
  @@ "wfg_pin_mux_top" :> wfg_pin_mux_top
  @@ "wfg_sysctrl_reg" :> wfg_sysctrl_reg
  @@ "wfg_stim_mem_top_0" :> wfg_stim_mem_top_0
  @@ "wfg_stim_mem_top_1" :> wfg_stim_mem_top_1
  @@ "wfg_stim_mem_top_2" :> wfg_stim_mem_top_2
  @@ "wfg_stim_mem_top_3" :> wfg_stim_mem_top_3
  @@ "wfg_drive_spi_top_0" :> wfg_drive_spi_top_0
  @@ "wfg_drive_spi_top_1" :> wfg_drive_spi_top_1
  @@ "wfg_drive_pat_top_0" :> wfg_drive_pat_top_0
  @@ "wfg_drive_i2c_top_0" :> wfg_drive_i2c_top_0
  @@ "wfg_drive_i2c_top_1" :> wfg_drive_i2c_top_1
  @@ "wfg_drive_i2ct_top_0" :> wfg_drive_i2ct_top_0
  @@ "wfg_drive_uart_top_0" :> wfg_drive_uart_top_0
  @@ "wfg_drive_uart_top_1" :> wfg_drive_uart_top_1
  @@ "wfg_record_mem_top_0" :> wfg_record_mem_top_0
  @@ "wfg_record_mem_top_1" :> wfg_record_mem_top_1
  @@ "wfg_record_mem_top_2" :> wfg_record_mem_top_2
  @@ "wfg_record_mem_top_3" :> wfg_record_mem_top_3)

(***************************************************************************)
(* State.                                                                  *)
(***************************************************************************)
VARIABLES
  pc,            \* thread -> line of mcp9808_sens_emulation.py it is at
  frame,         \* local variables of the script's functions (by name)
  ta_data,       \* main's nonlocal ambient temperature (a Python int)
  hw,            \* register address -> 32-bit word held by the FPGA
  hw0,           \* the words the registers held before the run
  pending,       \* transport requests issued and not yet returned
  log,           \* every transport request issued so far, in order
  exc,           \* thread -> exception that left it ("none" if none)
  inputs,        \* number of lines read from the prompt so far
  input_thread,  \* the threading.Thread object of main
  out,           \* last record written by logging.info / print
  reply,         \* history: the word the last register read returned
  failed,        \* history: line of the call that got a TransportError
  codec,         \* SpecCodec: one application of the shift/or idiom
  rmap           \* SpecMap: one table lookup or one dict-literal evaluation

vars == <<pc, frame, ta_data, hw, hw0, pending, log, exc, inputs,
          input_thread, out, reply, failed, codec, rmap>>

scriptVars == <<pc, frame, ta_data, hw, hw0, pending, log, exc, inputs,
                input_thread, out, reply, failed>>

Threads == {"main", "input_thread"}

(***************************************************************************)
(* Words.                                                                  *)
(***************************************************************************)
\* the bit positions of a 32-bit register word
WordBits == 0..31

Zero == {}

Ones32 == WordBits

\* value fits a 32-bit register word
Fits32(w) == w \subseteq WordBits

\* the low 32 bits of a Python int
Truncate32(w) == w \cap WordBits

\* words a register may hold before the script runs
ResetWords == {Zero, Ones32}

\* words a read may return besides the word last written
ReadNoise == {Zero, Ones32}

(***************************************************************************)
(* Table lookups of the script (dict subscripting).                        *)
(***************************************************************************)
\* a lookup that takes "LSB" for the MSB and "MSB" for the LSB
resolve_swapped(module, register, field) ==
  IF module \notin DOMAIN registers THEN <<"KeyError", module>>
  ELSE IF register \notin DOMAIN registers[module] THEN <<"KeyError", register>>
  ELSE IF field \notin DOMAIN registers[module][register] THEN <<"KeyError", field>>
  ELSE IF module = "wfg_interconnect_top" \/ field \in {"addr", "MSB", "LSB"}
       THEN <<"TypeError", field>>
  ELSE <<registers[module][register]["addr"],
         registers[module][register][field]["LSB"],
         registers[module][register][field]["MSB"]>>

\* a lookup that takes the base address of the module for the register
resolve_module_base(module, register, field) ==
  IF module \notin DOMAIN registers THEN <<"KeyError", module>>
  ELSE IF register \notin DOMAIN registers[module] THEN <<"KeyError", register>>
  ELSE IF field \notin DOMAIN registers[module][register] THEN <<"KeyError", field>>
  ELSE IF module = "wfg_interconnect_top" \/ field \in {"addr", "MSB", "LSB"}
       THEN <<"TypeError", field>>
  ELSE <<registers[module][register]["addr"]
           - (registers[module][register]["addr"] % 256),
         registers[module][register][field]["MSB"],
         registers[module][register][field]["LSB"]>>

\* FPGA_Reg.registers[module][register]["addr"], [field]["MSB"/"LSB"]
resolve(module, register, field) ==
  IF module \notin DOMAIN registers THEN <<"KeyError", module>>
  ELSE IF register \notin DOMAIN registers[module] THEN <<"KeyError", register>>
  ELSE IF field \notin DOMAIN registers[module][register] THEN <<"KeyError", field>>
  ELSE IF module = "wfg_interconnect_top" \/ field \in {"addr", "MSB", "LSB"}
       THEN <<"TypeError", field>>
  ELSE <<registers[module][register]["addr"],
         registers[module][register][field]["MSB"],
         registers[module][register][field]["LSB"]>>

i2ct_env == registers["wfg_drive_i2ct_top_0"]

i2ct_en == i2ct_env["CTRL"]["addr"]

i2ct_dev_addr == i2ct_env["CFG"]["addr"]

i2ct_reg_addr == i2ct_env["REGADDR"]["addr"]

i2ct_regwdata_addr == i2ct_env["REGWDATA"]["addr"]

\* a table whose OUTPUT_SEL_0 entry is the INPUT_SEL_0 entry
localenv_aliased ==
  [r \in DOMAIN registers["wfg_pin_mux_top"] |->
     IF r = "OUTPUT_SEL_0" THEN registers["wfg_pin_mux_top"]["INPUT_SEL_0"]
     ELSE registers["wfg_pin_mux_top"][r]]

localenv == registers["wfg_pin_mux_top"]

\* the addresses of the registers of one module
RegAddrs(m) == {registers[m][r]["addr"] : r \in DOMAIN registers[m]}

\* the registers the modelled hardware holds
HwAddrs == RegAddrs("wfg_drive_i2ct_top_0") \cup RegAddrs("wfg_pin_mux_top")

(***************************************************************************)
(* Constants of the script.                                                *)
(***************************************************************************)
i2ct_addr == 24

i2ct_devid_addr == 7

i2ct_devid_val == 55

i2ct_ta_reg == 5

\* the SDA identifier taken for the SCL input
i2ct_scl_i_swapped == input_pins["wfg_drive_i2ct_top_0_sda"]

i2ct_scl_i == 3

i2ct_sda_i == 2

i2ct_scl_o == 6

i2ct_sda_o == 5

ta_data_init == 30

(***************************************************************************)
(* The shift/or idiom of the script.                                       *)
(***************************************************************************)
\* word = value << LSB (the earlier fields are dropped)
SetField_assign(word, value, lsb) == pyShl(value, lsb)

\* word |= value (the shift is left out)
SetField_no_shift(word, value, lsb) == pyOr(word, value)

\* word |= value << LSB
SetField(word, value, lsb) == pyOr(word, pyShl(value, lsb))

\* read_data = read_data >> LSB
ShiftOut(read_data, lsb) == pyShr(read_data, lsb)

(***************************************************************************)
(* The console.                                                            *)
(***************************************************************************)
Digit == {"0", "1", "2", "3", "4", "5", "6", "7", "8", "9"}

DigitVal ==
  ("0" :> 0 @@ "1" :> 1 @@ "2" :> 2 @@ "3" :> 3 @@ "4" :> 4 @@
   "5" :> 5 @@ "6" :> 6 @@ "7" :> 7 @@ "8" :> 8 @@ "9" :> 9)

\* the lines the user may type, as sequences of characters
Lines ==
  { <<"e", "x", "i", "t">>,
    <<"E", "x", "I", "T">>,
    <<"a", "b">>,
    <<>>,
    <<"2", "5">>,
    <<"7">>,
    <<"4", "2", "9", "4", "9", "6", "7", "2", "9", "5">>,
    <<"4", "2", "9", "4", "9", "6", "7", "2", "9", "6">> }

\* str.lower() on one character
lowerChar(c) ==
  CASE c = "E" -> "e"
    [] c = "X" -> "x"
    [] c = "I" -> "i"
    [] c = "T" -> "t"
    [] OTHER -> c

\* str.lower()
lower(s) == [i \in 1..Len(s) |-> lowerChar(s[i])]

\* the decimal value of a digit string
RECURSIVE DecimalValue(_)
DecimalValue(s) ==
  IF s = <<>> THEN Zero
  ELSE pyAdd(pyMul10(DecimalValue(SubSeq(s, 1, Len(s) - 1))),
             Bits(DigitVal[s[Len(s)]]))

\* an int() that takes every line that is not a digit string for 0
int_lenient(s) ==
  IF s # <<>> /\ \A i \in 1..Len(s) : s[i] \in Digit
  THEN [ok |-> TRUE, val |-> DecimalValue(s)]
  ELSE [ok |-> TRUE, val |-> Zero]

\* int(new_value): the value, or ValueError for a line that is not a
\* digit string (the lines above carry no sign, blank or underscore)
int(s) ==
  IF s # <<>> /\ \A i \in 1..Len(s) : s[i] \in Digit
  THEN [ok |-> TRUE, val |-> DecimalValue(s)]
  ELSE [ok |-> FALSE, val |-> Zero]

(***************************************************************************)
(* Control flow helpers.                                                   *)
(***************************************************************************)
At(t, l) == pc[t] = l /\ exc[t] = "none"

Goto(t, l) == pc' = [pc EXCEPT ![t] = l]

Waiting(t) == \E q \in pending : q.by = t

\* lines inside the try block of update_ta_data (155-162), including the
\* body of i2ct_amb_temp called from line 161
TryLines == {"L156", "L157", "L158", "L160", "L161", "L162",
             "L72", "L76", "L77", "L78", "L81", "L82", "L83", "L84", "L85"}

\* except Exception:
except_Exception(e) == TRUE

\* except ValueError:
except_ValueError(e) == e = "ValueError"

\* an exception e raised in thread t at line l
Raise(t, l, e) ==
  IF l \in TryLines /\ except_ValueError(e)
  THEN /\ Goto(t, "L164")
       /\ UNCHANGED exc
  ELSE /\ Goto(t, "raised")
       /\ exc' = [exc EXCEPT ![t] = e]

\* sw.writeFPGARegister(a, word) called at line l, continuing at line ret
CallWrite(t, l, a, word, ret) ==
  /\ At(t, l)
  /\ ~Waiting(t)
  /\ pending' = pending \cup
       {[by |-> t, kind |-> "write", addr |-> a, word |-> word,
         at |-> l, ret |-> ret]}
  /\ log' = Append(log, [by |-> t, kind |-> "write", addr |-> a,
                         word |-> word, at |-> l])
  /\ UNCHANGED <<pc, frame, ta_data, hw, hw0, exc, inputs, input_thread,
                 out, reply,
                 failed, codec, rmap>>

\* a read call that always asks for the CTRL register
CallRead_ctrl(t, l, a, ret) ==
  /\ At(t, l)
  /\ ~Waiting(t)
  /\ pending' = pending \cup
       {[by |-> t, kind |-> "read", addr |-> i2ct_en, word |-> Zero,
         at |-> l, ret |-> ret]}
  /\ log' = Append(log, [by |-> t, kind |-> "read", addr |-> i2ct_en,
                         word |-> Zero, at |-> l])
  /\ UNCHANGED <<pc, frame, ta_data, hw, hw0, exc, inputs, input_thread,
                 out, reply,
                 failed, codec, rmap>>

\* sw.readFPGARegister(a) called at line l, continuing at line ret
CallRead(t, l, a, ret) ==
  /\ At(t, l)
  /\ ~Waiting(t)
  /\ pending' = pending \cup
       {[by |-> t, kind |-> "read", addr |-> a, word |-> Zero,
         at |-> l, ret |-> ret]}
  /\ log' = Append(log, [by |-> t, kind |-> "read", addr |-> a,
                         word |-> Zero, at |-> l])
  /\ UNCHANGED <<pc, frame, ta_data, hw, hw0, exc, inputs, input_thread,
                 out, reply,
                 failed, codec, rmap>>

\* an assignment that ors the word last read into the word being composed
Assign_reuses_read_data(t, l, name, value, next) ==
  /\ At(t, l)
  /\ frame' = [frame EXCEPT ![name] =
                 IF name \in {"set_addr", "set_id", "set_en", "set_amb",
                              "pingroup"}
                 THEN pyOr(value, frame.read_data) ELSE value]
  /\ Goto(t, next)
  /\ UNCHANGED <<ta_data, hw, hw0, pending, log, exc, inputs, input_thread,
                 out, reply,
                 failed, codec, rmap>>

\* an assignment to a local variable at line l
Assign(t, l, name, value, next) ==
  /\ At(t, l)
  /\ frame' = [frame EXCEPT ![name] = value]
  /\ Goto(t, next)
  /\ UNCHANGED <<ta_data, hw, hw0, pending, log, exc, inputs, input_thread,
                 out, reply,
                 failed, codec, rmap>>

\* logging.info / print at line l
Info(t, l, tag, data, next) ==
  /\ At(t, l)
  /\ out' = [tag |-> tag, data |-> data]
  /\ Goto(t, next)
  /\ UNCHANGED <<frame, ta_data, hw, hw0, pending, log, exc, inputs,
                 input_thread, reply,
                 failed, codec, rmap>>

\* a line that only moves on
Skip(t, l, next) ==
  /\ At(t, l)
  /\ Goto(t, next)
  /\ UNCHANGED <<frame, ta_data, hw, hw0, pending, log, exc, inputs,
                 input_thread, out, reply,
                 failed, codec, rmap>>

(***************************************************************************)
(* i2ct_conf(sw), lines 20-61.                                             *)
(***************************************************************************)
i2ct_conf ==
  \/ Skip("main", "L29", "L36")
  \/ Assign("main", "L36", "set_addr", Zero, "L37")
  \/ Assign("main", "L37", "set_addr",
            SetField(frame.set_addr, Bits(i2ct_addr),
                     i2ct_env["CFG"]["DEVID"]["LSB"]), "L38")
  \/ Assign("main", "L38", "set_addr",
            SetField(frame.set_addr, Bits(1),
                     i2ct_env["CFG"]["DATASIZE"]["LSB"]), "L39")
  \/ CallWrite("main", "L39", i2ct_dev_addr, frame.set_addr, "L40")
  \/ CallRead("main", "L40", i2ct_dev_addr, "L41")
  \/ Assign("main", "L41", "read_data",
            ShiftOut(frame.read_data, i2ct_env["CFG"]["DEVID"]["LSB"]), "L42")
  \/ Info("main", "L42", "I2C_T ADDR", frame.read_data, "L45")
  \/ Assign("main", "L45", "set_id", Zero, "L46")
  \/ Assign("main", "L46", "set_id",
            SetField(frame.set_id, Bits(i2ct_devid_addr),
                     i2ct_env["REGADDR"]["ADDR"]["LSB"]), "L47")
  \/ CallWrite("main", "L47", i2ct_reg_addr, frame.set_id, "L50")
  \/ Assign("main", "L50", "set_id", Zero, "L51")
  \/ Assign("main", "L51", "set_id",
            SetField(frame.set_id, Bits(i2ct_devid_val),
                     i2ct_env["REGWDATA"]["DATA"]["LSB"]), "L52")
  \/ CallWrite("main", "L52", i2ct_regwdata_addr, frame.set_id, "L53")
  \/ CallRead("main", "L53", i2ct_regwdata_addr, "L54")
  \/ Info("main", "L54", "DEV ID WRITE_REG", frame.read_data, "L56")
  \/ Assign("main", "L56", "set_en", Zero, "L57")
  \/ Assign("main", "L57", "set_en",
            SetField(frame.set_en, Bits(1), i2ct_env["CTRL"]["EN"]["LSB"]),
            "L58")
  \/ CallWrite("main", "L58", i2ct_en, frame.set_en, "L59")
  \/ CallRead("main", "L59", i2ct_en, "L60")
  \/ Assign("main", "L60", "read_data",
            ShiftOut(frame.read_data, i2ct_env["CTRL"]["EN"]["LSB"]), "L61")
  \/ Info("main", "L61", "I2C_T EN", frame.read_data, "L172")

(***************************************************************************)
(* i2ct_amb_temp(sw, ta_data), lines 64-86, run by thread t.               *)
(***************************************************************************)
i2ct_amb_temp(t) ==
  \/ Skip(t, "L72", "L76")
  \/ Assign(t, "L76", "set_amb", Zero, "L77")
  \/ Assign(t, "L77", "set_amb",
            SetField(frame.set_amb, Bits(i2ct_ta_reg),
                     i2ct_env["REGADDR"]["ADDR"]["LSB"]), "L78")
  \/ CallWrite(t, "L78", i2ct_reg_addr, frame.set_amb, "L81")
  \/ Assign(t, "L81", "set_amb", Zero, "L82")
  \/ Assign(t, "L82", "set_amb",
            SetField(frame.set_amb, ta_data,
                     i2ct_env["REGWDATA"]["DATA"]["LSB"]), "L83")
  \/ CallWrite(t, "L83", i2ct_regwdata_addr, frame.set_amb, "L84")
  \/ CallRead(t, "L84", i2ct_regwdata_addr, "L85")
  \/ Info(t, "L85", "T_AMB WRITE_REG", frame.read_data, "L162")

(***************************************************************************)
(* pin_mux_conf(sw), lines 89-121.                                         *)
(***************************************************************************)
pin_mux_conf ==
  \/ Skip("main", "L100", "L103")
  \/ Assign("main", "L103", "addr", localenv["INPUT_SEL_0"]["addr"], "L104")
  \/ Assign("main", "L104", "pingroup", Zero, "L105")
  \/ Assign("main", "L105", "pingroup",
            SetField(frame.pingroup, Bits(i2ct_scl_i),
                     localenv["INPUT_SEL_0"]["0"]["LSB"]), "L106")
  \/ Assign("main", "L106", "pingroup",
            SetField(frame.pingroup, Bits(i2ct_sda_i),
                     localenv["INPUT_SEL_0"]["1"]["LSB"]), "L107")
  \/ CallWrite("main", "L107", frame.addr, frame.pingroup, "L110")
  \/ Assign("main", "L110", "addr", localenv["OUTPUT_SEL_0"]["addr"], "L111")
  \/ Assign("main", "L111", "pingroup", Zero, "L112")
  \/ Assign("main", "L112", "pingroup",
            SetField(frame.pingroup, Bits(i2ct_scl_o),
                     localenv["OUTPUT_SEL_0"]["0"]["LSB"]), "L113")
  \/ Assign("main", "L113", "pingroup",
            SetField(frame.pingroup, Bits(i2ct_sda_o),
                     localenv["OUTPUT_SEL_0"]["1"]["LSB"]), "L114")
  \/ CallWrite("main", "L114", frame.addr, frame.pingroup, "L117")
  \/ Assign("main", "L117", "addr", localenv["PULLUP_SEL_0"]["addr"], "L118")
  \/ Assign("main", "L118", "pingroup", Zero, "L119")
  \/ Assign("main", "L119", "pingroup",
            SetField(frame.pingroup, Bits(1),
                     localenv["PULLUP_SEL_0"]["0"]["LSB"]), "L120")
  \/ Assign("main", "L120", "pingroup",
            SetField(frame.pingroup, Bits(1),
                     localenv["PULLUP_SEL_0"]["1"]["LSB"]), "L121")
  \/ CallWrite("main", "L121", frame.addr, frame.pingroup, "L173")

(***************************************************************************)
(* update_ta_data(sw), lines 149-164, run by thread t.                     *)
(***************************************************************************)
\* line 156: new_value = input(...)
update_ta_data_input(t) ==
  /\ At(t, "L156")
  /\ inputs < MaxInputs
  /\ \E line \in Lines : frame' = [frame EXCEPT !.new_value = line]
  /\ inputs' = inputs + 1
  /\ Goto(t, "L157")
  /\ UNCHANGED <<ta_data, hw, hw0, pending, log, exc, input_thread, out,
                 reply,
                 failed, codec, rmap>>

\* the comparison without .lower()
IsExit_case_sensitive(new_value) == new_value = <<"e", "x", "i", "t">>

\* line 157: new_value.lower() == 'exit'
IsExit(new_value) == lower(new_value) = <<"e", "x", "i", "t">>

\* line 160: ta_data = int(new_value)
update_ta_data_int(t) ==
  /\ At(t, "L160")
  /\ IF int(frame.new_value).ok
     THEN /\ ta_data' = int(frame.new_value).val
          /\ Goto(t, "L161")
          /\ UNCHANGED exc
     ELSE /\ Raise(t, "L160", "ValueError")
          /\ UNCHANGED ta_data
  /\ UNCHANGED <<frame, hw, hw0, pending, log, inputs, input_thread, out,
                 reply,
                 failed, codec, rmap>>

\* where the loop's break leads: back into main's line 173 when main made
\* the call, to the end of the thread when the thread runs the function
AfterBreak(t) == IF t = "main" THEN "L173_Thread" ELSE "finished"

\* lines 157-159: the line reads 'exit', print and break
update_ta_data_break(t) ==
  \/ (IsExit(frame.new_value) /\ Skip(t, "L157", "L158"))
  \/ Info(t, "L158", "Exiting input thread.", Zero, AfterBreak(t))

update_ta_data(t) ==
  \/ update_ta_data_input(t)
  \/ update_ta_data_break(t)
  \/ (~IsExit(frame.new_value) /\ Skip(t, "L157", "L160"))
  \/ update_ta_data_int(t)
  \/ Skip(t, "L161", "L72")
  \/ Info(t, "L162", "Updated ambient temperature", ta_data, "L156")
  \/ Info(t, "L164", "Invalid input.", Zero, "L156")

(***************************************************************************)
(* main(), lines 124-177.                                                  *)
(***************************************************************************)
\* line 147: ta_data = 30
main_L147 ==
  /\ At("main", "L147")
  /\ ta_data' = Bits(ta_data_init)
  /\ Goto("main", "L167")
  /\ UNCHANGED <<frame, hw, hw0, pending, log, exc, inputs, input_thread,
                 out, reply,
                 failed, codec, rmap>>

\* line 173 with the function itself as the target: Thread(target=f)
main_L173_passes_function ==
  /\ At("main", "L173")
  /\ input_thread' = [state |-> "created", target |-> "update_ta_data"]
  /\ Goto("main", "L174")
  /\ UNCHANGED <<frame, ta_data, hw, hw0, pending, log, exc, inputs, out,
                 reply,
                 failed, codec, rmap>>

\* line 173 preceded by i2ct_amb_temp(sw, ta_data) with the initial value
main_L173_writes_initial == Skip("main", "L173", "L72")

\* line 173, first half: the argument update_ta_data(sw) is a call, made by
\* main before Thread() runs
main_L173 == Skip("main", "L173", "L156")

\* line 173, second half: Thread(target=<the call's return value None>)
main_L173_Thread ==
  /\ At("main", "L173_Thread")
  /\ input_thread' = [state |-> "created", target |-> "None"]
  /\ Goto("main", "L174")
  /\ UNCHANGED <<frame, ta_data, hw, hw0, pending, log, exc, inputs, out,
                 reply,
                 failed, codec, rmap>>

\* line 174: input_thread.start()
main_L174 ==
  /\ At("main", "L174")
  /\ input_thread' = [input_thread EXCEPT !.state = "alive"]
  /\ pc' = [pc EXCEPT !["main"] = "L176", !["input_thread"] = "run"]
  /\ UNCHANGED <<frame, ta_data, hw, hw0, pending, log, exc, inputs, out,
                 reply,
                 failed, codec, rmap>>

\* input_thread.is_alive()
is_alive == input_thread.state = "alive"

\* main() calling pin_mux_conf(sw) before i2ct_conf(sw)
main_pin_mux_first ==
  \/ main_L147
  \/ Skip("main", "L167", "L170")
  \/ Skip("main", "L170", "L100")
  \/ (Len(log) < 4 /\ Skip("main", "L173", "L29"))
  \/ Skip("main", "L172", "L156")
  \/ main_L173_Thread
  \/ main_L174
  \/ (is_alive /\ Skip("main", "L176", "L177"))
  \/ (~is_alive /\ Skip("main", "L176", "returned"))
  \/ Skip("main", "L177", "L176")

main ==
  \/ main_L147
  \/ Skip("main", "L167", "L170")
  \/ Skip("main", "L170", "L29")
  \/ Skip("main", "L172", "L100")
  \/ main_L173
  \/ main_L173_Thread
  \/ main_L174
  \/ (is_alive /\ Skip("main", "L176", "L177"))
  \/ (~is_alive /\ Skip("main", "L176", "returned"))
  \/ Skip("main", "L177", "L176")

(***************************************************************************)
(* The input thread: Thread.run() calls the target if there is one.        *)
(***************************************************************************)
input_thread_run ==
  /\ At("input_thread", "run")
  /\ pc["main"] \notin {"raised", "returned"}
  /\ IF input_thread.target = "None"
     THEN Goto("input_thread", "finished")
     ELSE Goto("input_thread", "L156")
  /\ UNCHANGED <<input_thread, frame, ta_data, hw, hw0, pending, log, exc, inputs, out,
                 reply,
                 failed, codec, rmap>>

\* the thread's target returned or raised: the thread is no longer alive
input_thread_end ==
  /\ pc["input_thread"] \in {"finished", "raised"}
  /\ input_thread.state = "alive"
  /\ input_thread' = [input_thread EXCEPT !.state = "dead"]
  /\ UNCHANGED <<pc, frame, ta_data, hw, hw0, pending, log, exc, inputs,
                 out, reply,
                 failed, codec, rmap>>

(***************************************************************************)
(* The transport (SmartWave): one reply per request.                       *)
(***************************************************************************)
\* exceptions writeFPGARegister may raise for a value wider than 32 bits
ArgErrors == {"OverflowError", "ValueError"}

\* a write that ors the word into the register instead of replacing it
writeFPGARegister_or ==
  \E q \in pending :
    /\ q.kind = "write"
    /\ pending' = pending \ {q}
    /\ \/ /\ hw' = [hw EXCEPT ![q.addr] = pyOr(hw[q.addr], Truncate32(q.word))]
          /\ Goto(q.by, q.ret)
          /\ UNCHANGED exc
       \/ /\ ~Fits32(q.word)
          /\ \E e \in ArgErrors : Raise(q.by, q.at, e)
          /\ UNCHANGED hw
    /\ UNCHANGED <<frame, ta_data, hw0, log, inputs, input_thread, out,
                   reply,
                 failed, codec, rmap>>

\* sw.writeFPGARegister returns
writeFPGARegister ==
  \E q \in pending :
    /\ q.kind = "write"
    /\ pending' = pending \ {q}
    /\ \/ /\ hw' = [hw EXCEPT ![q.addr] = Truncate32(q.word)]
          /\ Goto(q.by, q.ret)
          /\ UNCHANGED exc
       \/ /\ ~Fits32(q.word)
          /\ \E e \in ArgErrors : Raise(q.by, q.at, e)
          /\ UNCHANGED hw
    /\ UNCHANGED <<frame, ta_data, hw0, log, inputs, input_thread, out,
                   reply,
                 failed, codec, rmap>>

\* sw.readFPGARegister returns a word
readFPGARegister ==
  \E q \in pending :
    /\ q.kind = "read"
    /\ pending' = pending \ {q}
    /\ \E w \in {hw[q.addr]} \cup ReadNoise :
         /\ frame' = [frame EXCEPT !.read_data = w]
         /\ reply' = w
    /\ Goto(q.by, q.ret)
    /\ UNCHANGED <<ta_data, hw, hw0, log, exc, inputs, input_thread, out,
                   failed, codec, rmap>>

\* the request fails: TransportError is raised in the calling thread
TransportError ==
  \E q \in pending :
    /\ pending' = pending \ {q}
    /\ Raise(q.by, q.at, "TransportError")
    /\ failed' = q.at
    /\ UNCHANGED <<frame, ta_data, hw, hw0, log, inputs, input_thread, out,
                   reply, codec, rmap>>

(***************************************************************************)
(* The script as a state machine.                                          *)
(***************************************************************************)
frame0 ==
  [set_addr |-> Zero, set_id |-> Zero, set_en |-> Zero, set_amb |-> Zero,
   pingroup |-> Zero, addr |-> 0, read_data |-> Zero, new_value |-> <<>>]

codec0 ==
  [op |-> "none", word |-> Zero, msb |-> 0, lsb |-> 0, value |-> Zero,
   encoded |-> Zero, decoded |-> Zero]

rmap0 == [op |-> "none", query |-> <<>>, result |-> <<>>]

\* the script before main() runs, the registers holding w
ScriptStart(w) ==
  /\ pc = [t \in Threads |-> IF t = "main" THEN "L147" ELSE "unborn"]
  /\ frame = frame0
  /\ ta_data = Zero
  /\ hw0 = [a \in HwAddrs |-> w]
  /\ hw = hw0
  /\ pending = {}
  /\ log = <<>>
  /\ exc = [t \in Threads |-> "none"]
  /\ inputs = 0
  /\ input_thread = [state |-> "none", target |-> "None"]
  /\ out = [tag |-> "", data |-> Zero]
  /\ reply = Zero
  /\ failed = "none"

Init ==
  /\ \E w \in ResetWords : ScriptStart(w)
  /\ codec = codec0
  /\ rmap = rmap0

Next ==
  \/ main
  \/ i2ct_conf
  \/ pin_mux_conf
  \/ \E t \in Threads : update_ta_data(t)
  \/ \E t \in Threads : i2ct_amb_temp(t)
  \/ input_thread_run
  \/ input_thread_end
  \/ writeFPGARegister
  \/ readFPGARegister
  \/ TransportError

Spec == Init /\ [][Next]_vars

\* The main thread keeps running: once a line reads 'exit' the break is
\* taken and main goes on; and a started thread is scheduled, since
\* time.sleep(1) in the wait loop of main releases the interpreter lock, so
\* the thread's run() and its end are not postponed forever.
Fairness ==
  /\ WF_vars(update_ta_data_break("main"))
  /\ WF_vars(main)
  /\ WF_vars(input_thread_run)
  /\ WF_vars(input_thread_end)

SpecLive == Spec /\ Fairness

(***************************************************************************)
(* SpecCodec: the shift/or idiom applied to one word, field and value.     *)
(***************************************************************************)
CodecWords == {Zero, Ones32, Bits(65536), Bits(65584)}

CodecFields == {f \in WordBits \X WordBits : f[2] <= f[1]}

CodecValues == {Zero, Bits(1), Bits(5), Bits(24)}

\* word |= value << LSB, as in lines 37, 38, 46, 51, 57, 77, 82, 105-120
codec_encode ==
  /\ codec.op = "input"
  /\ codec' = [codec EXCEPT !.op = "encoded",
                !.encoded = SetField(codec.word, codec.value, codec.lsb)]
  /\ UNCHANGED <<scriptVars, rmap>>

\* read_data = read_data >> LSB, as in lines 41 and 60
codec_decode ==
  /\ codec.op = "encoded"
  /\ codec' = [codec EXCEPT !.op = "decoded",
                !.decoded = ShiftOut(codec.encoded, codec.lsb)]
  /\ UNCHANGED <<scriptVars, rmap>>

InitCodec ==
  /\ ScriptStart(Zero)
  /\ rmap = rmap0
  /\ \E w \in CodecWords, f \in CodecFields, v \in CodecValues :
       codec = [op |-> "input", word |-> w, msb |-> f[1], lsb |-> f[2],
                value |-> v, encoded |-> Zero, decoded |-> Zero]

NextCodec == codec_encode \/ codec_decode

SpecCodec == InitCodec /\ [][NextCodec]_vars

(***************************************************************************)
(* SpecMap: one lookup in FPGA_Reg.registers, or the evaluation of one     *)
(* dict literal of register entries.                                       *)
(***************************************************************************)
ModuleNames == DOMAIN registers \cup {"wfg_unknown"}

RegisterNames(m) ==
  IF m \in DOMAIN registers THEN DOMAIN registers[m] \cup {"UNKNOWN"}
  ELSE {"CTRL"}

FieldNames(m, r) ==
  IF m \in DOMAIN registers /\ r \in DOMAIN registers[m]
  THEN DOMAIN registers[m][r] \cup {"UNKNOWN"}
  ELSE {"EN"}

map_resolve ==
  /\ rmap.op = "none"
  /\ \E m \in ModuleNames :
       \E r \in RegisterNames(m) :
         \E f \in FieldNames(m, r) :
           rmap' = [op |-> "resolved", query |-> <<m, r, f>>,
                    result |-> resolve(m, r, f)]
  /\ UNCHANGED <<scriptVars, codec>>

\* the register entries a dict literal is written with
Entries ==
  [name : {"CTRL", "CFG"}, addr : {262144, 262148}, MSB : {0, 1},
   LSB : {0, 1}]

EntryLists == UNION {[1..n -> Entries] : n \in 0..MaxEntries}

\* a dict literal that refuses a second name at an address, and MSB < LSB
dict_literal_validating(entries) ==
  IF \/ \E i, j \in DOMAIN entries :
          entries[i].name # entries[j].name /\ entries[i].addr = entries[j].addr
     \/ \E i \in DOMAIN entries : entries[i].MSB < entries[i].LSB
  THEN [status |-> "MalformedTable", table |-> <<>>]
  ELSE [status |-> "ok",
        table |-> [n \in {entries[i].name : i \in DOMAIN entries} |->
                    entries[CHOOSE i \in DOMAIN entries :
                              /\ entries[i].name = n
                              /\ \A j \in DOMAIN entries :
                                   entries[j].name = n => j <= i]]]

\* { name : {...}, name : {...}, ... }: evaluated left to right, a key
\* given again replaces the earlier value, nothing is checked
dict_literal(entries) ==
  [status |-> "ok",
   table |-> [n \in {entries[i].name : i \in DOMAIN entries} |->
               entries[CHOOSE i \in DOMAIN entries :
                         /\ entries[i].name = n
                         /\ \A j \in DOMAIN entries :
                              entries[j].name = n => j <= i]]]

map_construct ==
  /\ rmap.op = "none"
  /\ \E entries \in EntryLists :
       rmap' = [op |-> "constructed", query |-> entries,
                result |-> dict_literal(entries)]
  /\ UNCHANGED <<scriptVars, codec>>

(***************************************************************************)
(* Lookups in the interconnect selectors: a selector entry is one dict     *)
(* holding "addr", "MSB", "LSB" and the producer labels side by side.      *)
(***************************************************************************)
\* FPGA_Reg.registers["wfg_interconnect_top"][sel]["addr"/"MSB"/"LSB"]
selector(sel) ==
  IF sel \notin DOMAIN wfg_interconnect_top
  THEN [status |-> "KeyError", addr |-> 0, MSB |-> 0, LSB |-> 0]
  ELSE [status |-> "ok",
        addr |-> wfg_interconnect_top[sel]["addr"],
        MSB |-> wfg_interconnect_top[sel]["MSB"],
        LSB |-> wfg_interconnect_top[sel]["LSB"]]

\* a lookup that numbers the choices from 1
route_one_based(sel, label) ==
  IF sel \notin DOMAIN wfg_interconnect_top
     \/ label \notin DOMAIN wfg_interconnect_top[sel]
  THEN [status |-> "KeyError", value |-> 0, word |-> Zero]
  ELSE [status |-> "ok",
        value |-> wfg_interconnect_top[sel][label] + 1,
        word |-> SetField(Zero, Bits(wfg_interconnect_top[sel][label] + 1),
                          wfg_interconnect_top[sel]["LSB"])]

\* a lookup with a default: entry.get(label, 0)
route_default_disconnect(sel, label) ==
  IF sel \notin DOMAIN wfg_interconnect_top
  THEN [status |-> "KeyError", value |-> 0, word |-> Zero]
  ELSE IF label \notin DOMAIN wfg_interconnect_top[sel]
  THEN [status |-> "ok", value |-> 0, word |-> Zero]
  ELSE [status |-> "ok",
        value |-> wfg_interconnect_top[sel][label],
        word |-> SetField(Zero, Bits(wfg_interconnect_top[sel][label]),
                          wfg_interconnect_top[sel]["LSB"])]

\* FPGA_Reg.registers["wfg_interconnect_top"][sel][label], shifted to the
\* selector's LSB as the script shifts every value it writes
route(sel, label) ==
  IF sel \notin DOMAIN wfg_interconnect_top
     \/ label \notin DOMAIN wfg_interconnect_top[sel]
  THEN [status |-> "KeyError", value |-> 0, word |-> Zero]
  ELSE [status |-> "ok",
        value |-> wfg_interconnect_top[sel][label],
        word |-> SetField(Zero, Bits(wfg_interconnect_top[sel][label]),
                          wfg_interconnect_top[sel]["LSB"])]

SelectorNames == DOMAIN wfg_interconnect_top \cup {"wfg_unknown_select_0"}

\* every key of every selector entry, and a label no selector has
LabelNames ==
  UNION {DOMAIN wfg_interconnect_top[sel] : sel \in DOMAIN wfg_interconnect_top}
    \cup {"wfg_unknown_top_0"}

map_selector ==
  /\ rmap.op = "none"
  /\ \E sel \in SelectorNames :
       rmap' = [op |-> "selector", query |-> <<sel>>,
                result |-> selector(sel)]
  /\ UNCHANGED <<scriptVars, codec>>

map_route ==
  /\ rmap.op = "none"
  /\ \E sel \in SelectorNames :
       \E label \in LabelNames :
         rmap' = [op |-> "routed", query |-> <<sel, label>>,
                  result |-> route(sel, label)]
  /\ UNCHANGED <<scriptVars, codec>>

(***************************************************************************)
(* Lookups in the pin-mux table, in the order of pin_mux_conf (lines       *)
(* 103-107): the register's address, the lane's LSB, the word, the write.  *)
(***************************************************************************)
Directions == {"output", "pullup", "input"}

\* the registers of a direction, bank by bank; the table ends at bank 3
BankRegister ==
  [output |-> <<"OUTPUT_SEL_0", "OUTPUT_SEL_1", "OUTPUT_SEL_2",
                "OUTPUT_SEL_3", "OUTPUT_SEL_4">>,
   pullup |-> <<"PULLUP_SEL_0", "PULLUP_SEL_1", "PULLUP_SEL_2",
                "PULLUP_SEL_3", "PULLUP_SEL_4">>,
   input |-> <<"INPUT_SEL_0", "INPUT_SEL_1", "INPUT_SEL_2",
               "INPUT_SEL_3", "INPUT_SEL_4">>]

\* the field names of the lanes: str(lane)
LaneName ==
  <<"0", "1", "2", "3", "4", "5", "6", "7", "8", "9", "10", "11", "12",
    "13", "14", "15", "16", "17", "18", "19">>

\* the lookups with "LSB" taken for the MSB and "MSB" for the LSB
lane_lookup_swapped(register, field, pin_id) ==
  IF register \notin DOMAIN localenv \/ field \notin DOMAIN localenv[register]
  THEN [status |-> "KeyError", addr |-> 0, msb |-> 0, lsb |-> 0,
        write |-> <<>>]
  ELSE [status |-> "ok",
        addr |-> localenv[register]["addr"],
        msb |-> localenv[register][field]["LSB"],
        lsb |-> localenv[register][field]["MSB"],
        write |-> <<localenv[register]["addr"],
                    SetField(Zero, pin_id, localenv[register][field]["MSB"])>>]

\* the lookups with a default in place of a missing key: .get(key, ...)
lane_lookup_default(register, field, pin_id) ==
  IF register \notin DOMAIN localenv \/ field \notin DOMAIN localenv[register]
  THEN [status |-> "ok", addr |-> 0, msb |-> 7, lsb |-> 0,
        write |-> <<0, pin_id>>]
  ELSE [status |-> "ok",
        addr |-> localenv[register]["addr"],
        msb |-> localenv[register][field]["MSB"],
        lsb |-> localenv[register][field]["LSB"],
        write |-> <<localenv[register]["addr"],
                    SetField(Zero, pin_id, localenv[register][field]["LSB"])>>]

\* the lookups of one lane under a register and a field name
lane_lookup(register, field, pin_id) ==
  IF register \notin DOMAIN localenv \/ field \notin DOMAIN localenv[register]
  THEN [status |-> "KeyError", addr |-> 0, msb |-> 0, lsb |-> 0,
        write |-> <<>>]
  ELSE [status |-> "ok",
        addr |-> localenv[register]["addr"],
        msb |-> localenv[register][field]["MSB"],
        lsb |-> localenv[register][field]["LSB"],
        write |-> <<localenv[register]["addr"],
                    SetField(Zero, pin_id, localenv[register][field]["LSB"])>>]

\* localenv["<DIRECTION>_SEL_<lane / 4>"][str(lane)]
assign(direction, lane, pin_id) ==
  lane_lookup(BankRegister[direction][(lane \div 4) + 1], LaneName[lane + 1],
              pin_id)

\* pin identifiers handed to the lookup
PinIds == {Bits(i2ct_scl_i), Bits(i2ct_sda_o), Bits(1)}

map_assign ==
  /\ rmap.op = "none"
  /\ \E direction \in Directions :
       \E lane \in 0..MaxLane :
         \E pin_id \in PinIds :
           rmap' = [op |-> "assigned", query |-> <<direction, lane, pin_id>>,
                    result |-> assign(direction, lane, pin_id)]
  /\ UNCHANGED <<scriptVars, codec>>

InitMap ==
  /\ ScriptStart(Zero)
  /\ codec = codec0
  /\ rmap = rmap0

NextMap ==
  \/ map_resolve
  \/ map_construct
  \/ map_selector
  \/ map_route
  \/ map_assign

SpecMap == InitMap /\ [][NextMap]_vars

(***************************************************************************)
(* The codec of the specification (section 4.1), the reference the words   *)
(* of the script are compared with.                                        *)
(***************************************************************************)
\* the bit positions lsb..msb
FieldBits(msb, lsb) == lsb..msb

\* value < 2^(msb-lsb+1)
FitsField(value, msb, lsb) == value \subseteq 0..(msb - lsb)

\* current_word with bits [lsb, msb] cleared and replaced by value << lsb
encode(word, msb, lsb, value) ==
  (word \ FieldBits(msb, lsb)) \cup pyShl(value, lsb)

\* (word >> lsb) & ((1 << (msb-lsb+1)) - 1)
decode(word, msb, lsb) == pyShr(word, lsb) \cap (0..(msb - lsb))

\* decode of a named field of the I2C target
i2ct_field(word, register, field) ==
  decode(word, i2ct_env[register][field]["MSB"],
         i2ct_env[register][field]["LSB"])

(***************************************************************************)
(* Properties.                                                             *)
(***************************************************************************)

\* C1: for every field, word and value that fits the field, shifting the
\* encoded word back yields the value, and the bits of the encoded word
\* outside [lsb, msb] are those of the word.
C1_RoundTrip ==
  (codec.op = "decoded" /\ FitsField(codec.value, codec.msb, codec.lsb)) =>
    /\ codec.decoded = codec.value
    /\ codec.encoded \ FieldBits(codec.msb, codec.lsb)
         = codec.word \ FieldBits(codec.msb, codec.lsb)

\* a thread is inside a temperature update that has issued a register write
InUpdateAfterWrite(t) ==
  \/ pc[t] \in {"L81", "L82", "L83", "L84", "L85", "L162"}
  \/ (pc[t] = "L78" /\ Waiting(t))

\* C2: an ambient temperature that does not fit the 32 bits of
\* REGWDATA.DATA is rejected: no register write is issued for it.
C2_OutOfRangeRejected ==
  \A t \in Threads : ~Fits32(ta_data) => ~InUpdateAfterWrite(t)

\* C3 (as stated): every register write is preceded by a read of the same
\* register, and a field the script does not set (CFG.ADDRSIZE) holds
\* after the CFG write what it held before.
C3_ReadModifyWrite ==
  /\ \A i \in DOMAIN log :
       log[i].kind = "write" =>
         /\ i > 1
         /\ log[i - 1].kind = "read"
         /\ log[i - 1].addr = log[i].addr
  /\ pc["main"] = "L40" =>
       i2ct_field(hw[i2ct_dev_addr], "CFG", "ADDRSIZE")
         = i2ct_field(hw0[i2ct_dev_addr], "CFG", "ADDRSIZE")

\* C3 (amended): the CFG word is composed in a local variable starting
\* from 0 and written without a read: setting DATASIZE leaves DEVID at
\* 0x18 in the local word, the first transport request is a write, and the
\* register then holds 0x10030 whatever it held before.
C3_ComposedFromZero ==
  /\ pc["main"] \in {"L38", "L39"} =>
       i2ct_field(frame.set_addr, "CFG", "DEVID") = Bits(24)
  /\ pc["main"] = "L39" =>
       i2ct_field(frame.set_addr, "CFG", "DATASIZE") = Bits(1)
  /\ log # <<>> => log[1].kind = "write"
  /\ pc["main"] = "L40" =>
       /\ hw[i2ct_dev_addr] = Bits(65584)
       /\ i2ct_field(hw[i2ct_dev_addr], "CFG", "ADDRSIZE") = Zero

\* the CFG write has returned on a register that held all ones before
C3_Witness ==
  /\ pc["main"] = "L40"
  /\ hw0[i2ct_dev_addr] = Ones32
  /\ hw[i2ct_dev_addr] = Bits(65584)

\* C4: the words of i2ct_conf are the composition of encode from word 0
\* over the fields set (CFG = 0x10030, REGADDR = 0x07, REGWDATA = 0x37,
\* CTRL = 1), every other field is 0, and no register is read before it
\* is written.
C4_BlindWrites ==
  \A i \in DOMAIN log :
    /\ log[i].at = "L39" =>
         /\ log[i].word = encode(encode(Zero, 7, 1, Bits(24)), 17, 16, Bits(1))
         /\ log[i].word = Bits(65584)
         /\ i2ct_field(log[i].word, "CFG", "ADDRSIZE") = Zero
    /\ log[i].at = "L47" =>
         /\ log[i].word = encode(Zero, 15, 0, Bits(7))
         /\ log[i].word = Bits(7)
    /\ log[i].at = "L52" =>
         /\ log[i].word = encode(Zero, 31, 0, Bits(55))
         /\ log[i].word = Bits(55)
    /\ log[i].at = "L58" =>
         /\ log[i].word = encode(Zero, 0, 0, Bits(1))
         /\ log[i].word = Bits(1)
    /\ log[i].kind = "read" =>
         \E j \in 1..(i - 1) :
           log[j].kind = "write" /\ log[j].addr = log[i].addr

\* all four registers of the I2C target have been written
C4_Witness ==
  /\ \E i \in DOMAIN log : log[i].at = "L39" /\ log[i].kind = "write"
  /\ \E i \in DOMAIN log : log[i].at = "L58" /\ log[i].kind = "write"

\* C5: the value read back for CFG.DEVID is the 7-bit device address 0x18
\* when the register returns the word written, and the value read back
\* for CTRL.EN is 1.
C5_ReadField ==
  /\ (pc["main"] = "L42" /\ reply = Bits(65584)) =>
       frame.read_data = Bits(24)
  /\ (pc["main"] = "L61" /\ reply = Bits(1)) =>
       frame.read_data = Bits(1)

\* C6: no write is sent for an operation whose range check fails: every
\* word handed to the transport fits the 32-bit register.
C6_NoWriteAfterFailedCheck ==
  \A i \in DOMAIN log : log[i].kind = "write" => Fits32(log[i].word)

\* C7: a TransportError leaves the calling thread as TransportError, and
\* once a request has failed no further transport request is issued.
C7_TransportErrorPropagates ==
  /\ [](failed # "none" =>
          \E t \in Threads : exc[t] = "TransportError" /\ pc[t] = "raised")
  /\ [][failed # "none" => log' = log]_vars

\* a register write of a temperature update has failed and main has ended
\* with the error
C7_Witness ==
  /\ failed = "L83"
  /\ exc["main"] = "TransportError"
  /\ pc["main"] = "raised"

\* C8: at most one transport request is outstanding, and every request is
\* issued by the main thread.
C8_OneOutstanding ==
  /\ Cardinality(pending) <= 1
  /\ \A q \in pending : q.by = "main"
  /\ \A i \in DOMAIN log : log[i].by = "main"

\* the input thread has been started and has ended after a temperature
\* update was written
C8_Witness ==
  /\ pc["input_thread"] = "finished"
  /\ input_thread.state = "dead"
  /\ \E i \in DOMAIN log : log[i].at = "L83"

\* C9: resolve("wfg_core_top", "CTRL", "EN") = (0x40000, 0, 0) and
\* resolve("wfg_drive_spi_top_0", "CFG", "CPHA") = (0x80004, 1, 1).
C9_Resolve ==
  rmap.op = "resolved" =>
    /\ rmap.query = <<"wfg_core_top", "CTRL", "EN">> =>
         rmap.result = <<262144, 0, 0>>
    /\ rmap.query = <<"wfg_drive_spi_top_0", "CFG", "CPHA">> =>
         rmap.result = <<524292, 1, 1>>

\* CFG.CPHA of the first SPI driver has been resolved
C9_Witness ==
  /\ rmap.op = "resolved"
  /\ rmap.query = <<"wfg_drive_spi_top_0", "CFG", "CPHA">>
  /\ rmap.result[1] = 524292

\* two different names at one address, or a field with MSB < LSB
Malformed(entries) ==
  \/ \E i, j \in DOMAIN entries :
       entries[i].name # entries[j].name /\ entries[i].addr = entries[j].addr
  \/ \E i \in DOMAIN entries : entries[i].MSB < entries[i].LSB

IsField(q) ==
  /\ q[1] \in DOMAIN registers
  /\ q[1] # "wfg_interconnect_top"
  /\ q[2] \in DOMAIN registers[q[1]]
  /\ q[3] \in DOMAIN registers[q[1]][q[2]] \ {"addr", "MSB", "LSB"}

\* C11: every field of the table, the empty-named ones included, and
\* every interconnect selector has 0 <= LSB <= MSB <= 31, and no two
\* different register names of one module have the same address.
C11_TableWellFormed ==
  /\ (rmap.op = "resolved" /\ IsField(rmap.query)) =>
       /\ 0 <= rmap.result[3]
       /\ rmap.result[3] <= rmap.result[2]
       /\ rmap.result[2] <= 31
       /\ \A r2 \in DOMAIN registers[rmap.query[1]] :
            registers[rmap.query[1]][r2]["addr"] = rmap.result[1]
              => r2 = rmap.query[2]
  /\ (rmap.op = "selector" /\ rmap.result.status = "ok") =>
       /\ 0 <= rmap.result.LSB
       /\ rmap.result.LSB <= rmap.result.MSB
       /\ rmap.result.MSB <= 31
       /\ \A s2 \in DOMAIN wfg_interconnect_top :
            wfg_interconnect_top[s2]["addr"] = rmap.result.addr
              => s2 = rmap.query[1]

\* the empty-named field of the UART CTRL register has been resolved
C11_Witness ==
  /\ rmap.op = "resolved"
  /\ rmap.query = <<"wfg_drive_uart_top_0", "CTRL", "">>
  /\ rmap.result[2] = 31
  /\ rmap.result[3] = 31

\* the base address of the four registers of a direction
BankBase == [output |-> 286720, pullup |-> 286736, input |-> 286752]

\* C12: for every direction and lane 0..15 the lookup gives the register
\* of bank lane / 4 (four addresses, four lanes each) and the sub-field
\* msb = 8*(lane % 4)+7, lsb = 8*(lane % 4), and the lane is a field of no
\* other register of its direction.
C12_AssignBanked ==
  (rmap.op = "assigned" /\ rmap.query[2] <= 15) =>
    /\ rmap.result.status = "ok"
    /\ rmap.result.addr = BankBase[rmap.query[1]] + 4 * (rmap.query[2] \div 4)
    /\ rmap.result.msb = 8 * (rmap.query[2] % 4) + 7
    /\ rmap.result.lsb = 8 * (rmap.query[2] % 4)
    /\ \A b \in 0..3 :
         b # rmap.query[2] \div 4 =>
           LaneName[rmap.query[2] + 1]
             \notin DOMAIN localenv[BankRegister[rmap.query[1]][b + 1]]

\* lane 15 of the input direction has been looked up
C12_Witness ==
  /\ rmap.op = "assigned"
  /\ rmap.query[1] = "input"
  /\ rmap.query[2] = 15
  /\ rmap.result.status = "ok"
  /\ rmap.result.addr = 286764

\* C13: a lane above 15 fails in every direction and for every pin
\* identifier: the lookup yields no address and no register write.
C13_LaneOutOfRange ==
  (rmap.op = "assigned" /\ rmap.query[2] > 15) =>
    /\ rmap.result.status = "KeyError"
    /\ rmap.result.write = <<>>

\* lane 16 of the output direction has been looked up
C13_Witness ==
  /\ rmap.op = "assigned"
  /\ rmap.query[1] = "output"
  /\ rmap.query[2] = 16
  /\ rmap.result.status = "KeyError"

\* C14: every interconnect selector gives "disconnect" the value 0, so
\* the word routed for "disconnect" is 0.
C14_DisconnectIsZero ==
  (/\ rmap.op = "routed"
   /\ rmap.query[1] \in DOMAIN wfg_interconnect_top
   /\ rmap.query[2] = "disconnect") =>
    /\ rmap.result.status = "ok"
    /\ rmap.result.value = 0
    /\ rmap.result.word = Zero

\* "disconnect" has been routed on a record-mem selector
C14_Witness ==
  /\ rmap.op = "routed"
  /\ rmap.query = <<"wfg_record_mem_top_3_select_0", "disconnect">>
  /\ rmap.result.status = "ok"

\* the keys of a selector entry that are not producer labels
MetaKeys == {"addr", "MSB", "LSB"}

RecordMemSelectors ==
  {"wfg_record_mem_top_0_select_0", "wfg_record_mem_top_1_select_0",
   "wfg_record_mem_top_2_select_0", "wfg_record_mem_top_3_select_0"}

\* C16 (as stated): in every record-mem selector wfg_drive_i2c_top_1 and
\* wfg_drive_i2ct_top_0 both give 0x21.
C16_SharedValue ==
  (/\ rmap.op = "routed"
   /\ rmap.query[1] \in RecordMemSelectors
   /\ rmap.query[2] \in {"wfg_drive_i2c_top_1", "wfg_drive_i2ct_top_0"}) =>
    /\ rmap.result.status = "ok"
    /\ rmap.result.value = 33

\* C16 (amended): in every record-mem selector wfg_drive_i2c_top_0 and
\* wfg_drive_i2ct_top_0 both give 0x21, and wfg_drive_i2c_top_1 gives 0x22.
C16_SharedValueI2c0 ==
  (rmap.op = "routed" /\ rmap.query[1] \in RecordMemSelectors) =>
    /\ rmap.query[2] \in {"wfg_drive_i2c_top_0", "wfg_drive_i2ct_top_0"} =>
         /\ rmap.result.status = "ok"
         /\ rmap.result.value = 33
         /\ rmap.result.word = Bits(33)
    /\ rmap.query[2] = "wfg_drive_i2c_top_1" =>
         /\ rmap.result.status = "ok"
         /\ rmap.result.value = 34

\* the I2C target has been routed on a record-mem selector
C16_Witness ==
  /\ rmap.op = "routed"
  /\ rmap.query = <<"wfg_record_mem_top_2_select_0", "wfg_drive_i2ct_top_0">>
  /\ rmap.result.value = 33

(***************************************************************************)
(* Pin-mux writes of the script (Spec).                                    *)
(***************************************************************************)
\* lines of pin_mux_conf between the return of the INPUT_SEL_0 write and the
\* return of the OUTPUT_SEL_0 write
AfterInputWrite == {"L110", "L111", "L112", "L113", "L114"}

\* lines of pin_mux_conf between the return of the OUTPUT_SEL_0 write and the
\* return of the PULLUP_SEL_0 write
AfterOutputWrite == {"L117", "L118", "L119", "L120", "L121"}

\* the words pin_mux_conf writes: 0x0203, 0x0506, 0x0101
PinMuxWord == [input |-> Bits(515), output |-> Bits(1286), pullup |-> Bits(257)]

\* C17: the three assignments of pin_mux_conf are independent.  The write of
\* one direction changes the register of that direction (bank 0) and no
\* other: after the input write INPUT_SEL_0 holds 0x0203 while OUTPUT_SEL_0
\* and PULLUP_SEL_0 still hold their reset words; after the output write
\* OUTPUT_SEL_0 holds 0x0506, INPUT_SEL_0 keeps 0x0203 and PULLUP_SEL_0 its
\* reset word; after the pull-up write all three hold their own word.  Every
\* other pin-mux register keeps its reset word throughout, and assigning
\* lanes 0 and 1 in all three directions raises nothing in pin_mux_conf
\* (only a failing transport can).
C17_DirectionsIndependent ==
  /\ \A a \in RegAddrs("wfg_pin_mux_top") \ {BankBase[d] : d \in Directions} :
        hw[a] = hw0[a]
  /\ \A d \in Directions : hw[BankBase[d]] \in {hw0[BankBase[d]], PinMuxWord[d]}
  /\ pc["main"] \in AfterInputWrite =>
        /\ hw[BankBase.input] = PinMuxWord.input
        /\ hw[BankBase.output] = hw0[BankBase.output]
        /\ hw[BankBase.pullup] = hw0[BankBase.pullup]
  /\ pc["main"] \in AfterOutputWrite =>
        /\ hw[BankBase.input] = PinMuxWord.input
        /\ hw[BankBase.output] = PinMuxWord.output
        /\ hw[BankBase.pullup] = hw0[BankBase.pullup]
  /\ pc["main"] = "L173" =>
        \A d \in Directions : hw[BankBase[d]] = PinMuxWord[d]
  /\ pc["main"] \in AfterInputWrite \cup AfterOutputWrite \cup {"L173"} =>
        exc["main"] = "none"
  /\ (pc["main"] = "raised" /\ failed \in {"L107", "L114", "L121"}) =>
        exc["main"] = "TransportError"

\* pin_mux_conf has returned: lanes 0 and 1 are assigned in all three
\* directions at once, no register of another direction was disturbed
C17_Witness ==
  /\ pc["main"] = "L173"
  /\ exc["main"] = "none"
  /\ \A d \in Directions :
        hw[BankBase[d]] = PinMuxWord[d] /\ hw0[BankBase[d]] # PinMuxWord[d]


\* the one-bit-per-lane registers of the pin mux
BitmapRegisters ==
  {"MIRROR_OUTPUT", "MIRROR_PULLUP", "MIRROR_INPUT", "PIN_IR_RISING",
   "PIN_IR_FALLING", "ISR", "IER", "ICR"}

BitmapAddrs == {registers["wfg_pin_mux_top"][r]["addr"] : r \in BitmapRegisters}

\* C18 as stated: enabling the pull-up of lanes 0 and 1 (the write of line
\* 121) addresses a one-bit-per-lane bitmap register and sets bits 0 and 1.
C18_PullupBitmap ==
  \A i \in 1..Len(log) :
    log[i].at = "L121" =>
      log[i].addr \in BitmapAddrs /\ log[i].word = {0, 1}

\* C18 amended: the bitmap registers are each one field MSB = 15, LSB = 0,
\* and the script writes none of them; the pull-up of lanes 0 and 1 is
\* enabled through the banked register PULLUP_SEL_0, whose 8-bit sub-fields
\* 0 and 1 each receive the value 1 (word 0x0101: bits 0 and 8).
C18_PullupBanked ==
  /\ \A r \in BitmapRegisters :
       \E f \in {"VAL", "PIN"} :
         /\ DOMAIN registers["wfg_pin_mux_top"][r] = {"addr", f}
         /\ registers["wfg_pin_mux_top"][r][f]["MSB"] = 15
         /\ registers["wfg_pin_mux_top"][r][f]["LSB"] = 0
  /\ \A i \in 1..Len(log) :
       /\ log[i].addr \notin BitmapAddrs
       /\ log[i].at = "L121" =>
            /\ log[i].kind = "write"
            /\ log[i].addr = BankBase.pullup
            /\ log[i].word = {0, 8}
            /\ decode(log[i].word, 7, 0) = Bits(1)
            /\ decode(log[i].word, 15, 8) = Bits(1)
  /\ \A a \in BitmapAddrs : hw[a] = hw0[a]

\* the pull-up write has been issued and has reached PULLUP_SEL_0
C18_Witness ==
  /\ \E i \in 1..Len(log) : log[i].at = "L121"
  /\ hw[BankBase.pullup] = {0, 8}
  /\ hw0[BankBase.pullup] = Zero

\* C19: the values pin_mux_conf writes into the sub-fields of INPUT_SEL_0 and
\* OUTPUT_SEL_0 are the pin identifiers the input_pins / output_pins tables
\* give for the I2C target's signals (SCL in lane 0, SDA in lane 1), never
\* the lane indices 0 and 1, and every identifier of both tables fits in an
\* 8-bit sub-field.
C19_PinIdentifiers ==
  /\ \A i \in 1..Len(log) :
       /\ log[i].at = "L107" =>
            /\ log[i].addr = BankBase.input
            /\ decode(log[i].word, 7, 0) =
                 Bits(input_pins["wfg_drive_i2ct_top_0_scl"])
            /\ decode(log[i].word, 15, 8) =
                 Bits(input_pins["wfg_drive_i2ct_top_0_sda"])
            /\ decode(log[i].word, 7, 0) # Bits(0)
            /\ decode(log[i].word, 15, 8) # Bits(1)
       /\ log[i].at = "L114" =>
            /\ log[i].addr = BankBase.output
            /\ decode(log[i].word, 7, 0) =
                 Bits(output_pins["wfg_drive_i2ct_top_0_scl"])
            /\ decode(log[i].word, 15, 8) =
                 Bits(output_pins["wfg_drive_i2ct_top_0_sda"])
            /\ decode(log[i].word, 7, 0) # Bits(0)
            /\ decode(log[i].word, 15, 8) # Bits(1)
  /\ \A k \in DOMAIN input_pins : input_pins[k] \in 0..255
  /\ \A k \in DOMAIN output_pins : output_pins[k] \in 0..255

\* both the input and the output identifiers have been written
C19_Witness ==
  /\ \E i \in 1..Len(log) : log[i].at = "L107"
  /\ \E i \in 1..Len(log) : log[i].at = "L114"
  /\ hw[BankBase.input] = Bits(515)
  /\ hw[BankBase.output] = Bits(1286)

\* the register accesses of i2ct_conf and pin_mux_conf, in program order
BringUpCalls ==
  << [by |-> "main", kind |-> "write", addr |-> i2ct_dev_addr,
      word |-> Bits(65584), at |-> "L39"],
     [by |-> "main", kind |-> "read", addr |-> i2ct_dev_addr,
      word |-> Zero, at |-> "L40"],
     [by |-> "main", kind |-> "write", addr |-> i2ct_reg_addr,
      word |-> Bits(7), at |-> "L47"],
     [by |-> "main", kind |-> "write", addr |-> i2ct_regwdata_addr,
      word |-> Bits(55), at |-> "L52"],
     [by |-> "main", kind |-> "read", addr |-> i2ct_regwdata_addr,
      word |-> Zero, at |-> "L53"],
     [by |-> "main", kind |-> "write", addr |-> i2ct_en,
      word |-> Bits(1), at |-> "L58"],
     [by |-> "main", kind |-> "read", addr |-> i2ct_en,
      word |-> Zero, at |-> "L59"],
     [by |-> "main", kind |-> "write", addr |-> BankBase.input,
      word |-> Bits(515), at |-> "L107"],
     [by |-> "main", kind |-> "write", addr |-> BankBase.output,
      word |-> Bits(1286), at |-> "L114"],
     [by |-> "main", kind |-> "write", addr |-> BankBase.pullup,
      word |-> Bits(257), at |-> "L121"] >>

\* the lines at which control is right after a returned read
AfterRead == {"L41", "L54", "L60", "L85"}

\* C20: a read-back that differs from the word just written never raises and
\* never changes what the script does next.  Whatever words the reads return,
\* the accesses of the bring-up are a prefix of one fixed sequence; a thread
\* whose read has just returned carries no exception; and the access that
\* follows the read-back of line 84 is the REGADDR write of line 78 with the
\* word 5.
C20_ReadBackNeverEscalates ==
  /\ Len(log) <= Len(BringUpCalls) =>
       \A i \in 1..Len(log) : log[i] = BringUpCalls[i]
  /\ Len(log) > Len(BringUpCalls) =>
       \A i \in 1..Len(BringUpCalls) : log[i] = BringUpCalls[i]
  /\ \A t \in Threads : pc[t] \in AfterRead => exc[t] = "none"
  /\ \A i \in 2..Len(log) :
       log[i - 1].at = "L84" =>
         /\ log[i].at = "L78"
         /\ log[i].kind = "write"
         /\ log[i].addr = i2ct_reg_addr
         /\ log[i].word = Bits(i2ct_ta_reg)

\* the bring-up has completed although the last read-back (CTRL) differs
\* from the word written
C20_Witness ==
  /\ pc["main"] = "L173"
  /\ exc["main"] = "none"
  /\ Len(log) = Len(BringUpCalls)
  /\ hw[i2ct_en] = Bits(1)
  /\ reply # hw[i2ct_en]


(***************************************************************************)
(* Order of the script's register accesses (Spec).                         *)
(***************************************************************************)
IsWrite(e) == e.kind = "write"

\* the writes handed to the transport so far, in order
Writes == SelectSeq(log, IsWrite)

\* the registers the bring-up writes, in the order named by the claim
BringUpOrder ==
  << i2ct_dev_addr, i2ct_reg_addr, i2ct_regwdata_addr, i2ct_en,
     BankBase.input, BankBase.output, BankBase.pullup >>

\* C21: the bring-up writes come in the order CFG, REGADDR, REGWDATA, CTRL,
\* INPUT_SEL_0, OUTPUT_SEL_0, PULLUP_SEL_0.  The write that sets CTRL.EN is
\* the fourth, after CFG, REGADDR = 0x07 and REGWDATA = 0x37; a pin-mux
\* register is written only when CTRL holds EN = 1; and a temperature update
\* (lines 78, 83) is written only after the seven bring-up writes, when the
\* three pin-mux registers hold their words.
C21_BringUpOrder ==
  /\ \A i \in 1..Len(Writes) :
       /\ i <= Len(BringUpOrder) => Writes[i].addr = BringUpOrder[i]
       /\ Writes[i].addr = i2ct_en =>
            /\ i = 4
            /\ Writes[i].word = Bits(1)
            /\ Writes[1].addr = i2ct_dev_addr
            /\ Writes[2].word = Bits(i2ct_devid_addr)
            /\ Writes[3].word = Bits(i2ct_devid_val)
       /\ Writes[i].addr \in RegAddrs("wfg_pin_mux_top") =>
            /\ i \in 5..7
            /\ hw[i2ct_en] = Bits(1)
       /\ Writes[i].at \in {"L78", "L83"} =>
            /\ i > Len(BringUpOrder)
            /\ \A d \in Directions : hw[BankBase[d]] = PinMuxWord[d]

\* a temperature update has been written after the whole bring-up
C21_Witness ==
  /\ Len(Writes) = Len(BringUpOrder) + 2
  /\ Writes[Len(Writes)].at = "L83"
  /\ pc["main"] = "L162"


\* C22: every REGWDATA write directly follows a REGADDR write; a temperature
\* is written only while REGADDR holds 0x05 (no longer the device-ID register
\* 0x07); and when an update has completed REGADDR holds 0x05 and REGWDATA
\* holds the integer the user entered last.
C22_AddressThenData ==
  /\ \A i \in 1..Len(Writes) :
       /\ Writes[i].addr = i2ct_regwdata_addr =>
            i > 1 /\ Writes[i - 1].addr = i2ct_reg_addr
       /\ Writes[i].at = "L83" => hw[i2ct_reg_addr] = Bits(i2ct_ta_reg)
  /\ \A t \in Threads :
       pc[t] = "L162" =>
         /\ hw[i2ct_reg_addr] = Bits(i2ct_ta_reg)
         /\ hw[i2ct_regwdata_addr] = ta_data


(***************************************************************************)
(* The input loop (Spec).                                                  *)
(***************************************************************************)
\* the lines that read 'exit' once lowered
ExitLines == {<<"e", "x", "i", "t">>, <<"E", "x", "I", "T">>}

\* a line that is neither 'exit' nor a decimal integer
InvalidLine(s) ==
  /\ s \notin ExitLines
  /\ s = <<>> \/ \E i \in 1..Len(s) : s[i] \notin Digit

\* C23: a line that is neither 'exit' nor an integer changes nothing.  While
\* the loop handles such a line (lines 157, 160, 164) every step leaves
\* ta_data, the registers, the outstanding requests and the list of issued
\* accesses as they were, raises nothing out of the loop, and leads on
\* through the handler to the next prompt (157 -> 160 -> 164 -> 156).
C23_InvalidLineIgnored ==
  [][\A t \in Threads :
       (/\ pc[t] \in {"L157", "L160", "L164"}
        /\ exc[t] = "none"
        /\ InvalidLine(frame.new_value)) =>
         /\ ta_data' = ta_data
         /\ hw' = hw
         /\ log' = log
         /\ pending' = pending
         /\ exc'[t] = "none"
         /\ \/ pc'[t] = pc[t]
            \/ pc[t] = "L157" /\ pc'[t] = "L160"
            \/ pc[t] = "L160" /\ pc'[t] = "L164"
            \/ pc[t] = "L164" /\ pc'[t] = "L156"]_vars

\* after the update to 25 an invalid line was typed: the loop is back at the
\* prompt, the temperature and REGWDATA are still 25
C23_Witness ==
  /\ pc["main"] = "L156"
  /\ InvalidLine(frame.new_value)
  /\ out.tag = "Invalid input."
  /\ ta_data = Bits(25)
  /\ hw[i2ct_regwdata_addr] = Bits(25)


\* C24: the initial ambient temperature 30 is never written.  No access of
\* i2ct_amb_temp (REGADDR = 0x05, lines 78-84) is issued before the user has
\* entered a line and ta_data has been replaced by the integer entered (no
\* line of Lines reads 30), no REGWDATA write carries the initial value, and
\* while no update has been issued after the bring-up REGADDR holds 0x07 and
\* REGWDATA holds 0x37.
C24_InitialNeverWritten ==
  /\ \A i \in 1..Len(log) :
       /\ log[i].at \in {"L78", "L83", "L84"} =>
            inputs > 0 /\ ta_data # Bits(ta_data_init)
       /\ (log[i].kind = "write" /\ log[i].addr = i2ct_reg_addr
           /\ log[i].word = Bits(i2ct_ta_reg)) => inputs > 0
       /\ (log[i].kind = "write" /\ log[i].addr = i2ct_regwdata_addr) =>
            log[i].word # Bits(ta_data_init)
  /\ (Len(log) = Len(BringUpCalls) /\ pending = {} /\ failed = "none") =>
       /\ hw[i2ct_reg_addr] = Bits(i2ct_devid_addr)
       /\ hw[i2ct_regwdata_addr] = Bits(i2ct_devid_val)

\* the bring-up is over and the user is at the first prompt: ta_data is 30
\* and the registers still hold the device-ID pair
C24_Witness ==
  /\ pc["main"] = "L156"
  /\ inputs = 0
  /\ ta_data = Bits(ta_data_init)
  /\ hw[i2ct_reg_addr] = Bits(i2ct_devid_addr)
  /\ hw[i2ct_regwdata_addr] = Bits(i2ct_devid_val)


\* the lines of update_ta_data and of i2ct_amb_temp called from it
UpdateLines ==
  {"L156", "L157", "L158", "L160", "L161", "L162", "L164",
   "L72", "L76", "L77", "L78", "L81", "L82", "L83", "L84", "L85"}

\* the lines of main from the creation of the Thread object on
ThreadLines == {"L173_Thread", "L174", "L176", "L177", "returned"}

\* C25: every register access is issued by the main thread.  The input loop
\* has ended (its last line was 'exit', nothing is outstanding) before the
\* Thread object exists; the thread's target is None, so the started thread
\* never is inside update_ta_data or i2ct_amb_temp; and while main waits on
\* is_alive() no thread is inside a temperature update.
C25_LoopBeforeThread ==
  /\ \A i \in 1..Len(log) : log[i].by = "main"
  /\ pc["input_thread"] \notin UpdateLines
  /\ input_thread.target = "None"
  /\ input_thread.state # "none" =>
       /\ pc["main"] \in ThreadLines
       /\ frame.new_value \in ExitLines
       /\ pending = {}
  /\ pc["main"] \in ThreadLines =>
       /\ frame.new_value \in ExitLines
       /\ pending = {}
  /\ pc["input_thread"] # "unborn" => pc["main"] \in {"L176", "L177", "returned"}

\* main sleeps in the wait loop while the started thread, which has nothing
\* to run, is still alive; a temperature update was made before, by main
C25_Witness ==
  /\ pc["main"] = "L177"
  /\ input_thread.state = "alive"
  /\ pc["input_thread"] = "run"
  /\ \E i \in 1..Len(log) : log[i].at = "L84" /\ log[i].by = "main"


C27_ReadsAreReadBacks ==
  \A i \in 1..Len(log) :
    log[i].kind = "read" =>
      /\ i > 1
      /\ log[i - 1].kind = "write"
      /\ log[i - 1].addr = log[i].addr
      /\ log[i - 1].by = log[i].by
      /\ log[i].addr \in {i2ct_dev_addr, i2ct_regwdata_addr, i2ct_en}

\* the four read-backs of the script (lines 40, 53, 59, 84) have all been
\* issued
C27_Witness ==
  \A l \in {"L40", "L53", "L59", "L84"} :
    \E i \in 1..Len(log) : log[i].at = l /\ log[i].kind = "read"


\* the number of accesses issued to address a
AccessCount(a) == Cardinality({i \in 1..Len(log) : log[i].addr = a})

\* C28: pin_mux_conf writes only INPUT_SEL_0, OUTPUT_SEL_0 and PULLUP_SEL_0,
\* each once at most and exactly once when it has returned, as a full word
\* built from 0: the sub-fields of lanes 2 and 3 (bits 23..16 and 31..24) of
\* the word written are 0, and hold 0 in the register after the write
\* whatever the register held before.  No access of the script addresses
\* another pin-mux register (banks 1..3, mirror and interrupt registers
\* included), and these registers keep the word they held at the start.
C28_OnlyBankZero ==
  /\ \A i \in 1..Len(log) :
       /\ log[i].addr \in RegAddrs("wfg_pin_mux_top") =>
            /\ log[i].addr \in {BankBase[d] : d \in Directions}
            /\ log[i].kind = "write"
            /\ log[i].at \in {"L107", "L114", "L121"}
            /\ decode(log[i].word, 23, 16) = Zero
            /\ decode(log[i].word, 31, 24) = Zero
       /\ log[i].at \in {"L107", "L114", "L121"} =>
            log[i].addr \in {BankBase[d] : d \in Directions}
  /\ \A d \in Directions :
       /\ AccessCount(BankBase[d]) <= 1
       /\ hw[BankBase[d]] # hw0[BankBase[d]] =>
            /\ AccessCount(BankBase[d]) = 1
            /\ decode(hw[BankBase[d]], 23, 16) = Zero
            /\ decode(hw[BankBase[d]], 31, 24) = Zero
       /\ pc["main"] \in UpdateLines \cup ThreadLines \cup {"L173"} =>
            /\ AccessCount(BankBase[d]) = 1
            /\ decode(hw[BankBase[d]], 23, 16) = Zero
            /\ decode(hw[BankBase[d]], 31, 24) = Zero
  /\ \A a \in RegAddrs("wfg_pin_mux_top") \ {BankBase[d] : d \in Directions} :
       AccessCount(a) = 0 /\ hw[a] = hw0[a]

\* pin_mux_conf has returned on hardware whose registers held all ones: the
\* lanes 2 and 3 of the three bank-0 registers have been cleared
C28_Witness ==
  /\ pc["main"] = "L173"
  /\ \A d \in Directions :
       /\ hw0[BankBase[d]] = Ones32
       /\ decode(hw0[BankBase[d]], 23, 16) # Zero
       /\ decode(hw[BankBase[d]], 23, 16) = Zero
       /\ decode(hw[BankBase[d]], 31, 24) = Zero
       /\ AccessCount(BankBase[d]) = 1

=============================================================================
